---- MODULE Spec2Model ----
(***************************************************************************)
(* A model of the CRAM slice record writer (noodles-cram,                  *)
(* io/writer/container/slice/records.rs) and of the tag-set table builder  *)
(* (io/writer/container/compression_header/preservation_map/tag_sets.rs). *)
(*                                                                         *)
(* The streams are modelled as the ordered log of Encoding::encode calls:  *)
(* one event per call, carrying the data series (or the tag content id)    *)
(* and the value handed to the encoding.  The codecs behind an Encoding    *)
(* write into in-memory buffers and are taken not to fail.                 *)
(***************************************************************************)
EXTENDS Integers, Sequences, FiniteSets, TLC

VARIABLES
    records,                    \* the batch the compression header was built from
    compression_header,         \* Writer.compression_header
    reference_sequence_context, \* Writer.reference_sequence_context
    prev_alignment_start,       \* Writer.prev_alignment_start
    out,                        \* core + external streams: the log of encode calls
    calls,                      \* history: one [record, result] per write_record call
    pc,                         \* "build": the header's tag sets are not built yet; "write";
                                \* for a function call: "call", then "returned", "decoded"
    input,                      \* the arguments of a function call
    output                      \* what the call returned

vars == <<records, compression_header, reference_sequence_context,
          prev_alignment_start, out, calls, pc, input, output>>

----------------------------------------------------------------------------
(* Bounds of the model *)

\* write_record calls made on one Writer
MaxRecords == 2

\* records in the batch handed to build_tag_sets
MaxBatch == 3

\* The wire width (i32) and the host width (usize), scaled down: TLC's
\* integers are 32 bits wide, so i32::MAX + 1 itself cannot be written.
I32_MAX == 127
USIZE_MAX == 4095

----------------------------------------------------------------------------
(* Option<T>, io::Result<()> *)

None == <<>>
Some(v) == <<v>>
is_some(o) == o # <<>>
unwrap(o) == o[1]

Ok == [kind |-> "Ok", error |-> <<>>]
InvalidInput(e) == [kind |-> "InvalidInput", error |-> e]
InvalidData(e) == [kind |-> "InvalidData", error |-> e]
Panic(e) == [kind |-> "Panic", error |-> e]

is_ok(res) == res.kind = "Ok"

\* i32::try_from(usize)
fits_i32(n) == n <= I32_MAX
TryFromIntError == <<"TryFromIntError">>

----------------------------------------------------------------------------
(* Data series, flags, tag keys *)

DataSeries == {
    "BamFlags", "CramFlags", "ReferenceSequenceIds", "ReadLengths",
    "AlignmentStarts", "ReadGroupIds", "Names", "MateFlags",
    "MateReferenceSequenceId", "MateAlignmentStart", "TemplateLengths",
    "MateDistances", "TagSetIds", "FeatureCounts", "FeatureCodes",
    "FeaturePositionDeltas", "StretchesOfBases", "StretchesOfQualityScores",
    "Bases", "QualityScores", "BaseSubstitutionCodes", "InsertionBases",
    "DeletionLengths", "ReferenceSkipLengths", "SoftClipBases",
    "PaddingLengths", "HardClipLengths", "MappingQualities" }

\* Flags are sets of flag names; the integer an encoding receives for a flags
\* field is the bit pattern of that set, written here as the set itself.
is_unmapped(bam_flags) == "UNMAPPED" \in bam_flags
is_detached(cram_flags) == "DETACHED" \in cram_flags
are_quality_scores_stored_as_array(cram_flags) ==
    "QUALITY_SCORES_STORED_AS_ARRAY" \in cram_flags

is_many(context) == context[1] = "Many"

\* tag_sets::Key::new(tag, ty); block::ContentId::from(key) is one-to-one on
\* keys and is written as the key.
Key(tag, ty) == <<tag, ty>>
ContentId(key) == key

\* a data field of a record is <<tag, value>>, value = [ty, bytes]
TagSetOf(data) == [i \in 1..Len(data) |-> Key(data[i][1], data[i][2].ty)]

----------------------------------------------------------------------------
(* The writer's progress through one write_record call: the events encoded *)
(* so far and the result; a failed step is an early return ("?"), so every *)
(* later step leaves w alone.                                              *)

Start == [out |-> <<>>, res |-> Ok]

fail(w, e) == [w EXCEPT !.res = e]

\* Encoding::encode(core_data_writer, external_data_writers, value)
encode(w, series, value) ==
    [w EXCEPT !.out = Append(@, [series |-> series, key |-> <<>>, value |-> value])]

\* tag_encodings[block_content_id].encode(core_data_writer, external_data_writers, buf)
encode_tag(w, key, buf) ==
    [w EXCEPT !.out = Append(@, [series |-> "Tag", key |-> key, value |-> buf])]

has_encoding(series) == series \in compression_header.data_series_encodings

missing_data_series_encoding_error(data_series) ==
    InvalidData(<<"MissingDataSeriesEncoding", data_series>>)

\* faulty variant: a field whose encoding is missing is skipped without an error
encode_series_or_skip(w, series, value) ==
    IF ~has_encoding(series) THEN w ELSE encode(w, series, value)

\* self.compression_header.data_series_encodings().x().ok_or_else(..)?.encode(.., n)
encode_series(w, series, value) ==
    IF ~has_encoding(series)
    THEN fail(w, missing_data_series_encoding_error(series))
    ELSE encode(w, series, value)

\* faulty variant: a value that does not fit is wrapped to the wire width
encode_usize_wrapping(w, series, v, kind) ==
    IF ~has_encoding(series)
    THEN fail(w, missing_data_series_encoding_error(series))
    ELSE encode(w, series, v % (I32_MAX + 1))

\* let encoding = ..ok_or_else(..)?; let n = i32::try_from(v).map_err(kind)?;
\* encoding.encode(.., n)
encode_usize(w, series, v, kind) ==
    IF ~has_encoding(series)
    THEN fail(w, missing_data_series_encoding_error(series))
    ELSE IF ~fits_i32(v)
    THEN fail(w, [kind |-> kind, error |-> TryFromIntError])
    ELSE encode(w, series, v)

write_bam_flags(w, bam_flags) ==
    IF ~is_ok(w.res) THEN w ELSE encode_series(w, "BamFlags", bam_flags)

write_cram_flags(w, flags) ==
    IF ~is_ok(w.res) THEN w ELSE encode_series(w, "CramFlags", flags)

write_reference_sequence_id(w, reference_sequence_id) ==
    IF ~is_ok(w.res) THEN w
    ELSE IF is_some(reference_sequence_id)
    THEN encode_usize(w, "ReferenceSequenceIds", unwrap(reference_sequence_id),
                      "InvalidInput")
    ELSE encode_series(w, "ReferenceSequenceIds", -1)

write_read_length(w, read_length) ==
    IF ~is_ok(w.res) THEN w
    ELSE encode_usize(w, "ReadLengths", read_length, "InvalidData")

write_alignment_start(w, alignment_start) ==
    IF ~is_ok(w.res) THEN w
    ELSE IF ~has_encoding("AlignmentStarts")
    THEN fail(w, missing_data_series_encoding_error("AlignmentStarts"))
    ELSE IF compression_header.preservation_map.ap_data_series_delta
    THEN IF is_some(alignment_start) /\ ~fits_i32(unwrap(alignment_start))
         THEN fail(w, InvalidInput(TryFromIntError))
         ELSE IF is_some(prev_alignment_start) /\ ~fits_i32(unwrap(prev_alignment_start))
         THEN fail(w, InvalidInput(TryFromIntError))
         ELSE LET start == IF is_some(alignment_start)
                           THEN unwrap(alignment_start) ELSE 0
                  prev_start == IF is_some(prev_alignment_start)
                                THEN unwrap(prev_alignment_start) ELSE 0
              IN  encode(w, "AlignmentStarts", start - prev_start)
    ELSE IF is_some(alignment_start)
    THEN IF ~fits_i32(unwrap(alignment_start))
         THEN fail(w, InvalidInput(TryFromIntError))
         ELSE encode(w, "AlignmentStarts", unwrap(alignment_start))
    ELSE encode(w, "AlignmentStarts", 0)

write_read_group_id(w, read_group_id) ==
    IF ~is_ok(w.res) THEN w
    ELSE IF is_some(read_group_id)
    THEN encode_usize(w, "ReadGroupIds", unwrap(read_group_id), "InvalidInput")
    ELSE encode_series(w, "ReadGroupIds", -1)

\* faulty variant: the reference sequence id is written unless there is no context
write_positions_unless_none(w, record) ==
    IF ~is_ok(w.res) THEN w
    ELSE LET w1 == IF reference_sequence_context[1] # "None"
                   THEN write_reference_sequence_id(w, record.reference_sequence_id)
                   ELSE w
             w2 == write_read_length(w1, record.read_length)
             w3 == write_alignment_start(w2, record.alignment_start)
         IN  write_read_group_id(w3, record.read_group_id)

write_positions(w, record) ==
    IF ~is_ok(w.res) THEN w
    ELSE LET w1 == IF is_many(reference_sequence_context)
                   THEN write_reference_sequence_id(w, record.reference_sequence_id)
                   ELSE w
             w2 == write_read_length(w1, record.read_length)
             w3 == write_alignment_start(w2, record.alignment_start)
         IN  write_read_group_id(w3, record.read_group_id)

\* b"*\0"
MISSING_NAME == <<42, 0>>

write_name(w, name) ==
    IF ~is_ok(w.res) THEN w
    ELSE encode_series(w, "Names", IF is_some(name) THEN unwrap(name) ELSE MISSING_NAME)

\* faulty variant: the name is written whether or not read names are included
write_names_always(w, record) ==
    IF ~is_ok(w.res) THEN w ELSE write_name(w, record.name)

write_names(w, record) ==
    IF ~is_ok(w.res) THEN w
    ELSE IF compression_header.preservation_map.read_names_included
    THEN write_name(w, record.name)
    ELSE w

write_next_mate_bit_flags(w, next_mate_flags) ==
    IF ~is_ok(w.res) THEN w ELSE encode_series(w, "MateFlags", next_mate_flags)

write_next_fragment_reference_sequence_id(w, id) ==
    IF ~is_ok(w.res) THEN w
    ELSE IF is_some(id)
    THEN encode_usize(w, "MateReferenceSequenceId", unwrap(id), "InvalidInput")
    ELSE encode_series(w, "MateReferenceSequenceId", -1)

write_next_mate_alignment_start(w, next_mate_alignment_start) ==
    IF ~is_ok(w.res) THEN w
    ELSE encode_usize(w, "MateAlignmentStart",
                      IF is_some(next_mate_alignment_start)
                      THEN unwrap(next_mate_alignment_start) ELSE 0,
                      "InvalidInput")

write_template_size(w, template_size) ==
    IF ~is_ok(w.res) THEN w ELSE encode_series(w, "TemplateLengths", template_size)

write_mate_distance(w, distance) ==
    IF ~is_ok(w.res) THEN w
    ELSE encode_usize(w, "MateDistances", distance, "InvalidInput")

\* faulty variant: a known mate distance is written for a detached record too
write_mate_and_distance(w, record) ==
    IF ~is_ok(w.res) THEN w
    ELSE LET w0 == IF is_detached(record.cram_flags)
                   THEN LET w1 == write_next_mate_bit_flags(w, record.mate_flags)
                            w2 == IF ~is_ok(w1.res) THEN w1
                                  ELSE IF ~compression_header.preservation_map
                                               .read_names_included
                                  THEN write_name(w1, record.name)
                                  ELSE w1
                            w3 == write_next_fragment_reference_sequence_id(
                                      w2, record.mate_reference_sequence_id)
                            w4 == write_next_mate_alignment_start(
                                      w3, record.mate_alignment_start)
                        IN  write_template_size(w4, record.template_length)
                   ELSE w
         IN  IF is_ok(w0.res) /\ is_some(record.distance_to_mate)
             THEN write_mate_distance(w0, unwrap(record.distance_to_mate))
             ELSE w0

write_mate(w, record) ==
    IF ~is_ok(w.res) THEN w
    ELSE IF is_detached(record.cram_flags)
    THEN LET w1 == write_next_mate_bit_flags(w, record.mate_flags)
             w2 == IF ~is_ok(w1.res) THEN w1
                   ELSE IF ~compression_header.preservation_map.read_names_included
                   THEN write_name(w1, record.name)
                   ELSE w1
             w3 == write_next_fragment_reference_sequence_id(
                       w2, record.mate_reference_sequence_id)
             w4 == write_next_mate_alignment_start(w3, record.mate_alignment_start)
         IN  write_template_size(w4, record.template_length)
    ELSE IF is_some(record.distance_to_mate)
    THEN write_mate_distance(w, unwrap(record.distance_to_mate))
    ELSE w

----------------------------------------------------------------------------
(* Tags *)

\* faulty variant: a tag set is looked up by its tags, whatever their value types
tag_set_position_by_tag(tag_sets, tag_set) ==
    LET tags(set) == [i \in 1..Len(set) |-> set[i][1]]
        hits == {i \in 1..Len(tag_sets) : tags(tag_sets[i]) = tags(tag_set)}
    IN  IF hits = {} THEN None
        ELSE Some((CHOOSE i \in hits : \A j \in hits : i <= j) - 1)

\* .tag_sets().iter().position(|set| **set == tag_set): the first index
\* (0-based) that holds the tag set, None when no entry equals it
tag_set_position(tag_sets, tag_set) ==
    LET hits == {i \in 1..Len(tag_sets) : tag_sets[i] = tag_set}
    IN  IF hits = {} THEN None
        ELSE Some((CHOOSE i \in hits : \A j \in hits : i <= j) - 1)

write_tag_set_id(w, tag_line) ==
    IF ~is_ok(w.res) THEN w
    ELSE IF ~fits_i32(tag_line)
    THEN fail(w, InvalidInput(TryFromIntError))
    ELSE encode_series(w, "TagSetIds", tag_line)

\* noodles_bam's write_value(&mut buf, &value): appends the value's bytes
write_value(buf, value) == buf \o value.bytes

\* faulty variant: the buffer is not cleared after a tag value is encoded
write_tag_keep_buf(w, buf, key, value) ==
    LET block_content_id == ContentId(key)
        buf1 == write_value(buf, value)
    IN  IF block_content_id \notin compression_header.tag_encodings
        THEN [w |-> fail(w, InvalidInput(<<"MissingTagEncoding", key>>)), buf |-> buf1]
        ELSE [w |-> encode_tag(w, block_content_id, buf1), buf |-> buf1]

\* one turn of the loop over tag_set.into_iter().zip(&record.data); the
\* result is the writer's progress and the buffer the next turn starts with
write_tag(w, buf, key, value) ==
    LET block_content_id == ContentId(key)
        buf1 == write_value(buf, value)
    IN  IF block_content_id \notin compression_header.tag_encodings
        THEN [w |-> fail(w, InvalidInput(<<"MissingTagEncoding", key>>)), buf |-> buf1]
        ELSE [w |-> encode_tag(w, block_content_id, buf1), buf |-> <<>>]

RECURSIVE write_tag_values(_, _, _, _, _)
write_tag_values(w, buf, tag_set, data, i) ==
    IF ~is_ok(w.res) \/ i > Len(tag_set) \/ i > Len(data) THEN w
    ELSE LET t == write_tag(w, buf, tag_set[i], data[i][2])
         IN  write_tag_values(t.w, t.buf, tag_set, data, i + 1)

\* faulty variant: the tag set id is encoded (0 for a missing tag set) before the
\* missing tag set is reported
write_tags_id_first(w, record) ==
    IF ~is_ok(w.res) THEN w
    ELSE LET tag_set == TagSetOf(record.data)
             tag_set_id == tag_set_position(compression_header.preservation_map.tag_sets,
                                            tag_set)
             w1 == write_tag_set_id(w, IF is_some(tag_set_id) THEN unwrap(tag_set_id) ELSE 0)
         IN  IF ~is_some(tag_set_id)
             THEN fail(w1, InvalidInput(<<"missing tag set">>))
             ELSE write_tag_values(w1, <<>>, tag_set, record.data, 1)

write_tags(w, record) ==
    IF ~is_ok(w.res) THEN w
    ELSE LET tag_set == TagSetOf(record.data)
             tag_set_id == tag_set_position(compression_header.preservation_map.tag_sets, tag_set)
         IN  IF ~is_some(tag_set_id)
             THEN fail(w, InvalidInput(<<"missing tag set">>))
             ELSE write_tag_values(write_tag_set_id(w, unwrap(tag_set_id)),
                                   <<>>, tag_set, record.data, 1)

----------------------------------------------------------------------------
(* Read bodies *)

\* substitution::Base::try_from(u8)
SubstitutionBases == {"A", "C", "G", "T", "N"}

write_number_of_read_features(w, feature_count) ==
    IF ~is_ok(w.res) THEN w
    ELSE encode_usize(w, "FeatureCounts", feature_count, "InvalidInput")

\* Feature::code(): one code per feature kind, written as the kind
write_feature_code(w, code) ==
    IF ~is_ok(w.res) THEN w ELSE encode_series(w, "FeatureCodes", code)

write_feature_position(w, position) ==
    IF ~is_ok(w.res) THEN w
    ELSE encode_usize(w, "FeaturePositionDeltas", position, "InvalidInput")

write_base(w, base) ==
    IF ~is_ok(w.res) THEN w ELSE encode_series(w, "Bases", base)

write_quality_score(w, quality_score) ==
    IF ~is_ok(w.res) THEN w ELSE encode_series(w, "QualityScores", quality_score)

\* substitution_matrix.find_code(reference_base, read_base): the code is
\* written as the pair it is looked up with
write_base_substitution_code(w, reference_base, read_base) ==
    IF ~is_ok(w.res) THEN w
    ELSE IF ~has_encoding("BaseSubstitutionCodes")
    THEN fail(w, missing_data_series_encoding_error("BaseSubstitutionCodes"))
    ELSE IF reference_base \notin SubstitutionBases \/ read_base \notin SubstitutionBases
    THEN fail(w, InvalidInput(<<"TryFromByteError">>))
    ELSE encode(w, "BaseSubstitutionCodes", <<reference_base, read_base>>)

write_feature_payload(w, feature) ==
    IF ~is_ok(w.res) THEN w
    ELSE CASE feature.kind = "Bases" -> encode_series(w, "StretchesOfBases", feature.bases)
           [] feature.kind = "Scores" ->
                  encode_series(w, "StretchesOfQualityScores", feature.quality_scores)
           [] feature.kind = "ReadBase" ->
                  write_quality_score(write_base(w, feature.base), feature.quality_score)
           [] feature.kind = "Substitution" ->
                  write_base_substitution_code(w, feature.reference_base, feature.read_base)
           [] feature.kind = "Insertion" -> encode_series(w, "InsertionBases", feature.bases)
           [] feature.kind = "Deletion" ->
                  encode_usize(w, "DeletionLengths", feature.len, "InvalidInput")
           [] feature.kind = "InsertBase" -> write_base(w, feature.base)
           [] feature.kind = "QualityScore" -> write_quality_score(w, feature.quality_score)
           [] feature.kind = "ReferenceSkip" ->
                  encode_usize(w, "ReferenceSkipLengths", feature.len, "InvalidInput")
           [] feature.kind = "SoftClip" -> encode_series(w, "SoftClipBases", feature.bases)
           [] feature.kind = "Padding" ->
                  encode_usize(w, "PaddingLengths", feature.len, "InvalidInput")
           [] feature.kind = "HardClip" ->
                  encode_usize(w, "HardClipLengths", feature.len, "InvalidInput")

write_feature(w, feature, position) ==
    IF ~is_ok(w.res) THEN w
    ELSE write_feature_payload(
             write_feature_position(write_feature_code(w, feature.kind), position),
             feature)

\* faulty variant: every feature position is written as it is, not as a delta
RECURSIVE write_features_absolute(_, _, _, _, _)
write_features_absolute(w, features, i, prev_position, overflow_checks) ==
    IF ~is_ok(w.res) \/ i > Len(features) THEN w
    ELSE write_features_absolute(write_feature(w, features[i], features[i].position),
                                 features, i + 1, 0, overflow_checks)

\* usize::from(feature.position()) - prev_position: with overflow checks a
\* negative difference panics, without them it wraps around
RECURSIVE write_features(_, _, _, _, _)
write_features(w, features, i, prev_position, overflow_checks) ==
    IF ~is_ok(w.res) \/ i > Len(features) THEN w
    ELSE LET feature == features[i]
             difference == feature.position - prev_position
         IN  IF difference < 0 /\ overflow_checks
             THEN fail(w, Panic(<<"attempt to subtract with overflow">>))
             ELSE write_features(
                      write_feature(w, feature,
                                    IF difference < 0
                                    THEN difference + USIZE_MAX + 1 ELSE difference),
                      features, i + 1, feature.position, overflow_checks)

\* const MISSING: u8 = 0xff
MISSING_MAPPING_QUALITY == 255

\* faulty variant: a missing mapping quality is written as 0
write_mapping_quality_or_zero(w, mapping_quality) ==
    IF ~is_ok(w.res) THEN w
    ELSE encode_series(w, "MappingQualities",
                       IF is_some(mapping_quality) THEN unwrap(mapping_quality) ELSE 0)

write_mapping_quality(w, mapping_quality) ==
    IF ~is_ok(w.res) THEN w
    ELSE encode_series(w, "MappingQualities",
                       IF is_some(mapping_quality) THEN unwrap(mapping_quality)
                       ELSE MISSING_MAPPING_QUALITY)

\* Encoding::get().encode_extend(.., bytes)
write_sequence(w, sequence) ==
    IF ~is_ok(w.res) THEN w ELSE encode_series(w, "Bases", sequence)

write_quality_scores(w, quality_scores) ==
    IF ~is_ok(w.res) THEN w ELSE encode_series(w, "QualityScores", quality_scores)

write_mapped_read(w, record, overflow_checks) ==
    IF ~is_ok(w.res) THEN w
    ELSE LET w1 == write_number_of_read_features(w, Len(record.features))
             w2 == write_features(w1, record.features, 1, 0, overflow_checks)
             w3 == write_mapping_quality(w2, record.mapping_quality)
         IN  IF is_ok(w3.res) /\ are_quality_scores_stored_as_array(record.cram_flags)
             THEN write_quality_scores(w3, record.quality_scores)
             ELSE w3

write_unmapped_read(w, record) ==
    IF ~is_ok(w.res) THEN w
    ELSE LET w1 == write_sequence(w, record.sequence)
         IN  IF is_ok(w1.res) /\ are_quality_scores_stored_as_array(record.cram_flags)
             THEN write_quality_scores(w1, record.quality_scores)
             ELSE w1

----------------------------------------------------------------------------
(* Writer::new, Writer::write_record *)

\* faulty variant: the context's alignment start is not taken as the first baseline
initial_alignment_start_none(context) == None

\* the prev_alignment_start a new Writer starts with
initial_alignment_start(context) ==
    IF context[1] = "Some" THEN Some(context[2].alignment_start) ELSE None

\* faulty variant: the tags are written before the names and the mate block
write_record_tags_first(record, overflow_checks) ==
    LET w1 == write_bam_flags(Start, record.bam_flags)
        w2 == write_cram_flags(w1, record.cram_flags)
        w3 == write_positions(w2, record)
        w4 == write_tags(w3, record)
        w5 == write_names(w4, record)
        w6 == write_mate(w5, record)
    IN  IF is_unmapped(record.bam_flags)
        THEN write_unmapped_read(w6, record)
        ELSE write_mapped_read(w6, record, overflow_checks)

\* the encode calls and the result of write_record(record), up to the
\* assignment to prev_alignment_start
write_record(record, overflow_checks) ==
    LET w1 == write_bam_flags(Start, record.bam_flags)
        w2 == write_cram_flags(w1, record.cram_flags)
        w3 == write_positions(w2, record)
        w4 == write_names(w3, record)
        w5 == write_mate(w4, record)
        w6 == write_tags(w5, record)
    IN  IF is_unmapped(record.bam_flags)
        THEN write_unmapped_read(w6, record)
        ELSE write_mapped_read(w6, record, overflow_checks)

\* faulty variant: an unmapped record leaves the previous alignment start alone
next_prev_alignment_start_mapped_only(res, record) ==
    IF is_ok(res) /\ ~is_unmapped(record.bam_flags)
    THEN record.alignment_start ELSE prev_alignment_start

\* faulty variant: a failed record's alignment start is taken over too
next_prev_alignment_start_on_error(res, record) ==
    IF res.kind = "Panic" THEN prev_alignment_start ELSE record.alignment_start

\* self.prev_alignment_start = record.alignment_start, reached only by Ok
next_prev_alignment_start(res, record) ==
    IF is_ok(res) THEN record.alignment_start ELSE prev_alignment_start

----------------------------------------------------------------------------
(* build_tag_sets *)

RECURSIVE build_tag_sets_from(_, _, _)
build_tag_sets_from(tag_sets, batch, i) ==
    IF i > Len(batch) THEN tag_sets
    ELSE LET set == TagSetOf(batch[i].data)
         IN  IF \E j \in 1..Len(tag_sets) : tag_sets[j] = set
             THEN build_tag_sets_from(tag_sets, batch, i + 1)
             ELSE build_tag_sets_from(Append(tag_sets, set), batch, i + 1)

\* faulty variant: a tag set seen before is appended again
build_tag_sets_no_dedup(batch) == [i \in 1..Len(batch) |-> TagSetOf(batch[i].data)]

build_tag_sets(batch) == build_tag_sets_from(<<>>, batch, 1)

----------------------------------------------------------------------------
(* The compression header *)

\* the tag encoding table: one encoding per content id of the tag sets
build_tag_encodings(tag_sets) ==
    UNION {{ContentId(tag_sets[i][j]) : j \in 1..Len(tag_sets[i])} :
           i \in 1..Len(tag_sets)}

build_compression_header(batch, ap_data_series_delta, read_names_included) ==
    [preservation_map |->
         [ap_data_series_delta |-> ap_data_series_delta,
          read_names_included |-> read_names_included,
          tag_sets |-> build_tag_sets(batch)],
     data_series_encodings |-> DataSeries,
     tag_encodings |-> build_tag_encodings(build_tag_sets(batch))]

\* the header before its tag sets are built
empty_compression_header(ap_data_series_delta, read_names_included) ==
    [preservation_map |->
         [ap_data_series_delta |-> ap_data_series_delta,
          read_names_included |-> read_names_included,
          tag_sets |-> <<>>],
     data_series_encodings |-> DataSeries,
     tag_encodings |-> {}]

----------------------------------------------------------------------------
(* Inputs *)

NH == <<"NH", [ty |-> "Int8", bytes |-> <<1>>]>>
NH16 == <<"NH", [ty |-> "Int16", bytes |-> <<1, 0>>]>>
CO == <<"CO", [ty |-> "String", bytes |-> <<110, 0>>]>>

DefaultRecord ==
    [bam_flags |-> {}, cram_flags |-> {}, mate_flags |-> {},
     reference_sequence_id |-> None, read_length |-> 4,
     alignment_start |-> None, read_group_id |-> None, name |-> None,
     mate_reference_sequence_id |-> None, mate_alignment_start |-> None,
     template_length |-> 0, distance_to_mate |-> None,
     data |-> <<>>, features |-> <<>>, mapping_quality |-> None,
     sequence |-> <<>>, quality_scores |-> <<>>]

\* mapped and unmapped records with and without an alignment start, one of
\* them with a start that does not fit the wire width
PositionRecords ==
    {[DefaultRecord EXCEPT !.bam_flags = f, !.alignment_start = a] :
        f \in {{}, {"UNMAPPED"}}, a \in {None, Some(1), Some(5)}}
    \cup {[DefaultRecord EXCEPT !.alignment_start = Some(I32_MAX + 1)]}

MateRecords ==
    {[DefaultRecord EXCEPT !.cram_flags = {"DETACHED"}, !.name = Some(<<114, 49>>),
                           !.mate_flags = {"ON_NEGATIVE_STRAND"},
                           !.mate_reference_sequence_id = Some(1),
                           !.mate_alignment_start = Some(9),
                           !.template_length = -7,
                           !.distance_to_mate = Some(3)],
     [DefaultRecord EXCEPT !.cram_flags = {"DETACHED"}, !.bam_flags = {"UNMAPPED"}],
     [DefaultRecord EXCEPT !.cram_flags = {"HAS_MATE_DOWNSTREAM"},
                           !.name = Some(<<114, 50>>),
                           !.distance_to_mate = Some(2)]}

TaggedRecords ==
    {[DefaultRecord EXCEPT !.data = d] : d \in {<<NH>>, <<NH, CO>>, <<CO>>}}

BodyRecords ==
    {[DefaultRecord EXCEPT !.reference_sequence_id = Some(1),
                           !.read_group_id = Some(0),
                           !.alignment_start = Some(2),
                           !.cram_flags = {"QUALITY_SCORES_STORED_AS_ARRAY"},
                           !.features =
                               <<[kind |-> "Substitution", position |-> 2,
                                  reference_base |-> "A", read_base |-> "C"],
                                 [kind |-> "Deletion", position |-> 4, len |-> 1]>>,
                           !.mapping_quality = Some(30),
                           !.quality_scores = <<40, 40, 40, 40>>],
     [DefaultRecord EXCEPT !.bam_flags = {"UNMAPPED"},
                           !.cram_flags = {"QUALITY_SCORES_STORED_AS_ARRAY"},
                           !.sequence = <<65, 67, 71, 84>>,
                           !.quality_scores = <<30, 30, 30, 30>>]}

Records == PositionRecords \cup MateRecords \cup TaggedRecords \cup BodyRecords

\* a mapped record with features of several kinds, in position order
FeatureRecord ==
    [DefaultRecord EXCEPT !.features =
                              <<[kind |-> "SoftClip", position |-> 1, bases |-> <<65, 67>>],
                                [kind |-> "ReadBase", position |-> 3, base |-> 71,
                                 quality_score |-> 20],
                                [kind |-> "Insertion", position |-> 3, bases |-> <<84>>]>>,
                          !.mapping_quality = Some(7)]

\* the records written over a header that lacks an encoding
MissingRecords ==
    MateRecords \cup BodyRecords
    \cup {DefaultRecord, FeatureRecord, [DefaultRecord EXCEPT !.data = <<NH, CO>>]}

\* records with one field at the wire width's limit, or one past it
FeatureAt(position) == [kind |-> "InsertBase", position |-> position, base |-> 65]

RangeRecords ==
    UNION {{[DefaultRecord EXCEPT !.reference_sequence_id = Some(v)],
            [DefaultRecord EXCEPT !.read_length = v],
            [DefaultRecord EXCEPT !.alignment_start = Some(v)],
            [DefaultRecord EXCEPT !.read_group_id = Some(v)],
            [DefaultRecord EXCEPT !.cram_flags = {"DETACHED"},
                                  !.mate_alignment_start = Some(v)],
            [DefaultRecord EXCEPT !.distance_to_mate = Some(v)],
            [DefaultRecord EXCEPT !.features = <<FeatureAt(v)>>],
            [DefaultRecord EXCEPT !.features = <<FeatureAt(2), FeatureAt(v + 2)>>],
            [DefaultRecord EXCEPT !.features =
                                      <<[kind |-> "Deletion", position |-> 1, len |-> v]>>]} :
           v \in {I32_MAX, I32_MAX + 1}}
    \cup {[DefaultRecord EXCEPT !.data = d] : d \in {<<NH>>, <<CO>>}}
    \cup {[DefaultRecord EXCEPT !.features = [i \in 1..(I32_MAX + 1) |-> FeatureAt(i)]]}

\* a tag set table with more entries than the wire width can number: the
\* tag set <<CO>> is the last one an id fits for, <<NH>> the one after it
TagNames == <<"X0", "X1", "X2", "X3", "X4", "X5", "X6", "X7", "X8", "X9", "XA", "XB">>
TagTypes == <<"Int8", "UInt8", "Int16", "UInt16", "Int32", "UInt32", "Float",
              "String", "Hex", "Character", "Int8Array", "UInt8Array">>

ManyTagSets ==
    <<<<>>>>
    \o [i \in 1..(I32_MAX - 1) |->
            <<Key(TagNames[(i \div Len(TagTypes)) + 1], TagTypes[(i % Len(TagTypes)) + 1])>>]
    \o <<TagSetOf(<<CO>>), TagSetOf(<<NH>>)>>

\* read bodies: unmapped and mapped records with and without verbatim quality
\* scores, feature lists of every payload kind, in and out of position order
BodyFeatureLists ==
    {<<>>,
     <<[kind |-> "Bases", position |-> 1, bases |-> <<65, 67>>],
       [kind |-> "Scores", position |-> 1, quality_scores |-> <<30, 31>>],
       [kind |-> "ReadBase", position |-> 3, base |-> 71, quality_score |-> 20]>>,
     <<[kind |-> "Substitution", position |-> 2, reference_base |-> "A",
        read_base |-> "C"],
       [kind |-> "Insertion", position |-> 2, bases |-> <<84>>],
       [kind |-> "Deletion", position |-> 4, len |-> 2],
       [kind |-> "InsertBase", position |-> 4, base |-> 65]>>,
     <<[kind |-> "QualityScore", position |-> 1, quality_score |-> 9],
       [kind |-> "ReferenceSkip", position |-> 2, len |-> 3],
       [kind |-> "SoftClip", position |-> 3, bases |-> <<67, 67>>],
       [kind |-> "Padding", position |-> 4, len |-> 1],
       [kind |-> "HardClip", position |-> 4, len |-> 5]>>,
     <<FeatureAt(3)>>,
     <<FeatureAt(4), FeatureAt(2)>>}

ReadBodyRecords ==
    {[DefaultRecord EXCEPT !.cram_flags = f, !.features = features,
                           !.mapping_quality = IF features = <<>> THEN None ELSE Some(30),
                           !.quality_scores = <<40, 41, 42, 43>>] :
        f \in {{}, {"QUALITY_SCORES_STORED_AS_ARRAY"}}, features \in BodyFeatureLists}
    \cup {[DefaultRecord EXCEPT !.bam_flags = {"UNMAPPED"}, !.cram_flags = f,
                                !.sequence = <<65, 67, 71, 84>>,
                                !.features = <<FeatureAt(1)>>,
                                !.quality_scores = <<30, 31, 32, 33>>] :
              f \in {{}, {"QUALITY_SCORES_STORED_AS_ARRAY"}}}

\* the encodings a header may lack: one data series, or one tag key
MissingEncodings ==
    {[series |-> {}, keys |-> {}]}
    \cup {[series |-> {s}, keys |-> {}] : s \in DataSeries}
    \cup {[series |-> {}, keys |-> {ContentId(key)}] :
             key \in {Key("NH", "Int8"), Key("CO", "String")}}

\* the batch the header of Spec is built from: the tag set <<CO>> is not in it
WriterBatch ==
    <<DefaultRecord, [DefaultRecord EXCEPT !.data = <<NH>>],
      [DefaultRecord EXCEPT !.data = <<NH, CO>>], [DefaultRecord EXCEPT !.data = <<NH>>]>>

Contexts == {<<"None">>, <<"Some", [alignment_start |-> 3]>>, <<"Many">>}

\* the records of the tag-set specification differ in their tags alone
TagData == {<<>>, <<NH>>, <<NH, CO>>, <<CO, NH>>, <<NH16>>}
TagBatchRecords == {[DefaultRecord EXCEPT !.data = d] : d \in TagData}

RECURSIVE SeqsUpTo(_, _)
SeqsUpTo(S, n) ==
    IF n = 0 THEN {<<>>}
    ELSE LET shorter == SeqsUpTo(S, n - 1)
         IN  shorter \cup {Append(q, x) : q \in {t \in shorter : Len(t) = n - 1}, x \in S}

----------------------------------------------------------------------------
(* Specifications *)

\* Spec: a Writer over a built header, right after Writer::new
Init ==
    /\ records = WriterBatch
    /\ \E delta \in BOOLEAN, names \in BOOLEAN :
           compression_header = build_compression_header(WriterBatch, delta, names)
    /\ reference_sequence_context \in Contexts
    /\ prev_alignment_start = initial_alignment_start(reference_sequence_context)
    /\ out = <<>>
    /\ calls = <<>>
    /\ pc = "write"
    /\ input = <<>>
    /\ output = <<>>

\* write_record(record), with the build's overflow checks on or off; a
\* panic ends the process
WriteRecord(record) ==
    /\ pc = "write"
    /\ Len(calls) < MaxRecords
    /\ \A i \in 1..Len(calls) : calls[i].result.kind # "Panic"
    /\ \E overflow_checks \in BOOLEAN :
         \E w \in {write_record(record, overflow_checks)} :
             /\ out' = out \o [i \in 1..Len(w.out) |->
                                  [rec |-> Len(calls) + 1, series |-> w.out[i].series,
                                   key |-> w.out[i].key, value |-> w.out[i].value]]
             /\ calls' = Append(calls, [record |-> record, result |-> w.res])
             /\ prev_alignment_start' = next_prev_alignment_start(w.res, record)
    /\ UNCHANGED <<records, compression_header, reference_sequence_context, pc,
                   input, output>>

Next == \E record \in Records : WriteRecord(record)

Spec == Init /\ [][Next]_vars

\* SpecTags: a batch, the header's tag sets built from it, then a Writer
InitTags ==
    /\ records \in SeqsUpTo(TagBatchRecords, MaxBatch)
    /\ compression_header = empty_compression_header(FALSE, FALSE)
    /\ reference_sequence_context = <<"None">>
    /\ prev_alignment_start = initial_alignment_start(reference_sequence_context)
    /\ out = <<>>
    /\ calls = <<>>
    /\ pc = "build"
    /\ input = <<>>
    /\ output = <<>>

BuildCompressionHeader ==
    /\ pc = "build"
    /\ compression_header' = build_compression_header(records, FALSE, FALSE)
    /\ pc' = "write"
    /\ UNCHANGED <<records, reference_sequence_context, prev_alignment_start, out, calls,
                   input, output>>

WriteTaggedRecord == \E record \in TagBatchRecords : WriteRecord(record)

NextTags == BuildCompressionHeader \/ WriteTaggedRecord

SpecTags == InitTags /\ [][NextTags]_vars

\* SpecMissing: a Writer over a header that lacks one encoding
InitMissing ==
    /\ records = WriterBatch
    /\ \E names \in BOOLEAN, missing \in MissingEncodings :
           compression_header =
               [build_compression_header(WriterBatch, FALSE, names) EXCEPT
                    !.data_series_encodings = @ \ missing.series,
                    !.tag_encodings = @ \ missing.keys]
    /\ reference_sequence_context \in {<<"None">>, <<"Many">>}
    /\ prev_alignment_start = initial_alignment_start(reference_sequence_context)
    /\ out = <<>>
    /\ calls = <<>>
    /\ pc = "write"
    /\ input = <<>>
    /\ output = <<>>

NextMissing == \E record \in MissingRecords : WriteRecord(record)

SpecMissing == InitMissing /\ [][NextMissing]_vars

\* SpecRange: a Writer handed records whose fields reach the wire width
InitRange ==
    /\ records = WriterBatch
    /\ \E delta \in BOOLEAN :
           compression_header =
               [build_compression_header(WriterBatch, delta, FALSE) EXCEPT
                    !.preservation_map.tag_sets = ManyTagSets,
                    !.tag_encodings = build_tag_encodings(ManyTagSets)]
    /\ reference_sequence_context \in {<<"Many">>, <<"Some", [alignment_start |-> 3]>>}
    /\ prev_alignment_start = initial_alignment_start(reference_sequence_context)
    /\ out = <<>>
    /\ calls = <<>>
    /\ pc = "write"
    /\ input = <<>>
    /\ output = <<>>

NextRange == \E record \in RangeRecords : WriteRecord(record)

SpecRange == InitRange /\ [][NextRange]_vars

\* SpecBody: a Writer handed records that differ in their read bodies
InitBody ==
    /\ records = WriterBatch
    /\ \E names \in BOOLEAN :
           compression_header = build_compression_header(WriterBatch, FALSE, names)
    /\ reference_sequence_context \in {<<"None">>, <<"Many">>}
    /\ prev_alignment_start = initial_alignment_start(reference_sequence_context)
    /\ out = <<>>
    /\ calls = <<>>
    /\ pc = "write"
    /\ input = <<>>
    /\ output = <<>>

NextBody == \E record \in ReadBodyRecords : WriteRecord(record)

SpecBody == InitBody /\ [][NextBody]_vars

----------------------------------------------------------------------------
(* Reading the log *)

\* the events of the k-th write_record call, in stream order
EventsOf(k) == SelectSeq(out, LAMBDA e : e.rec = k)

SeriesOf(k) == [i \in 1..Len(EventsOf(k)) |-> EventsOf(k)[i].series]

\* the values the k-th call encoded with one data series, in stream order
ValuesOf(k, series) ==
    LET es == SelectSeq(out, LAMBDA e : e.rec = k /\ e.series = series)
    IN  [i \in 1..Len(es) |-> es[i].value]

Count(k, series) == Len(ValuesOf(k, series))

Succeeded(k) == is_ok(calls[k].result)

\* an alignment start on the wire: a missing one counts as 0
StartOf(alignment_start) ==
    IF is_some(alignment_start) THEN unwrap(alignment_start) ELSE 0

\* the alignment start of the slice's reference sequence context
SliceBaseline ==
    IF reference_sequence_context[1] = "Some"
    THEN reference_sequence_context[2].alignment_start ELSE 0

\* the last call before the k-th that wrote its record, 0 when there is none
WrittenBefore(k) ==
    LET earlier == {j \in 1..(k - 1) : Succeeded(j)}
    IN  IF earlier = {} THEN 0 ELSE CHOOSE j \in earlier : \A i \in earlier : i <= j

\* the step of write_record a data series belongs to
MateSeries ==
    {"MateFlags", "MateReferenceSequenceId", "MateAlignmentStart",
     "TemplateLengths", "MateDistances"}

StepOf(series) ==
    CASE series = "BamFlags" -> 1
      [] series = "CramFlags" -> 2
      [] series = "ReferenceSequenceIds" -> 3
      [] series = "ReadLengths" -> 4
      [] series = "AlignmentStarts" -> 5
      [] series = "ReadGroupIds" -> 6
      [] series = "Names" ->
             IF compression_header.preservation_map.read_names_included THEN 7 ELSE 8
      [] series \in MateSeries -> 8
      [] series = "TagSetIds" -> 9
      [] series = "Tag" -> 10
      [] OTHER -> 11

----------------------------------------------------------------------------
(* C1: with delta coding on, the value encoded for a record's alignment    *)
(* start is its start minus the start of the record written before it      *)
(* (mapped or not), and for the first written record minus the alignment   *)
(* start of the slice's reference sequence context; a missing start, or a  *)
(* context that is not a single reference, counts as 0.  With delta coding *)
(* off, the absolute start (0 if missing) is encoded.  A record that is    *)
(* written has exactly one such value.                                     *)
C1_AlignmentStartOrDelta ==
    \A k \in 1..Len(calls) :
        LET values == ValuesOf(k, "AlignmentStarts")
            start == StartOf(calls[k].record.alignment_start)
            before == WrittenBefore(k)
            prev == IF before = 0 THEN SliceBaseline
                    ELSE StartOf(calls[before].record.alignment_start)
        IN  /\ Len(values) <= 1
            /\ Succeeded(k) => Len(values) = 1
            /\ Len(values) = 1 =>
                   values[1] =
                       IF compression_header.preservation_map.ap_data_series_delta
                       THEN start - prev ELSE start

\* a delta against the context, then a delta against an unmapped record
C1_Witness ==
    /\ compression_header.preservation_map.ap_data_series_delta
    /\ reference_sequence_context[1] = "Some"
    /\ Len(calls) = 2
    /\ Succeeded(1) /\ Succeeded(2)
    /\ is_unmapped(calls[1].record.bam_flags)
    /\ ValuesOf(1, "AlignmentStarts") = <<2>>
    /\ ValuesOf(2, "AlignmentStarts") = <<-4>>

(* C2: with delta coding on and every record written, the encoded          *)
(* alignment-start values added up from the slice baseline give, at every  *)
(* record, that record's alignment start (0 for a missing one).            *)
RECURSIVE DeltaSum(_)
DeltaSum(k) ==
    IF k = 0 THEN 0
    ELSE DeltaSum(k - 1) +
         (IF Count(k, "AlignmentStarts") = 1 THEN ValuesOf(k, "AlignmentStarts")[1] ELSE 0)

C2_DeltaRoundTrip ==
    (/\ compression_header.preservation_map.ap_data_series_delta
     /\ \A k \in 1..Len(calls) : Succeeded(k))
    => \A k \in 1..Len(calls) :
           SliceBaseline + DeltaSum(k) = StartOf(calls[k].record.alignment_start)

C2_Witness ==
    /\ compression_header.preservation_map.ap_data_series_delta
    /\ reference_sequence_context[1] = "Some"
    /\ Len(calls) = 2
    /\ Succeeded(1) /\ Succeeded(2)
    /\ calls[1].record.alignment_start = Some(5)
    /\ calls[2].record.alignment_start = None
    /\ SliceBaseline + DeltaSum(2) = 0

(* C3: every record's fields are encoded in the order of the steps of      *)
(* write_record (BAM flags, CRAM flags, reference sequence id, read        *)
(* length, alignment start, read group id, name, mate block, tag set id,   *)
(* tag values, read body), no field of a later step before a field of an   *)
(* earlier one, a written record has each mandatory field once and ends    *)
(* with its read body, and the records follow one another in the streams   *)
(* without interleaving.                                                   *)
C3_FixedFieldOrder ==
    /\ \A i \in 1..(Len(out) - 1) : out[i].rec <= out[i + 1].rec
    /\ \A k \in 1..Len(calls) :
           LET series == SeriesOf(k)
               n == Len(series)
           IN  /\ \A i \in 1..(n - 1) :
                      /\ StepOf(series[i]) <= StepOf(series[i + 1])
                      /\ StepOf(series[i]) \in {1, 2, 3, 4, 5, 6, 7, 9}
                             => StepOf(series[i]) < StepOf(series[i + 1])
               /\ Succeeded(k) =>
                      /\ \A step \in {1, 2, 4, 5, 6, 9} :
                             \E i \in 1..n : StepOf(series[i]) = step
                      /\ n > 0 /\ StepOf(series[n]) = 11

\* a detached record and a record with two tags, every step taken
C3_Witness ==
    /\ is_many(reference_sequence_context)
    /\ compression_header.preservation_map.read_names_included
    /\ Len(calls) = 2
    /\ Succeeded(1) /\ Succeeded(2)
    /\ is_detached(calls[1].record.cram_flags)
    /\ Len(calls[2].record.data) = 2
    /\ {StepOf(out[i].series) : i \in 1..Len(out)} = 1..11

(* C4, as claimed: whenever write_record returns an error for a record,    *)
(* the streams hold no field of that record.                               *)
C4_NoFieldOfFailedRecord ==
    \A k \in 1..Len(calls) : ~Succeeded(k) => EventsOf(k) = <<>>

(* C4, amended: whenever write_record returns an error for a record, the   *)
(* failing field and every later field of the record are absent from the   *)
(* streams, while the fields encoded before the failing one stay there:    *)
(* after a missing tag set, the flags, read length, alignment start and    *)
(* read group id are in the streams and no tag set id, tag value or read   *)
(* body; after an alignment start that does not fit, the flags and the     *)
(* read length are and nothing from the alignment start on.                *)
C4_FailureKeepsEarlierFields ==
    \A k \in 1..Len(calls) :
        ~Succeeded(k) =>
            LET series == SeriesOf(k)
                steps == {StepOf(series[i]) : i \in 1..Len(series)}
                error == calls[k].result.error
                start == calls[k].record.alignment_start
            IN  /\ error = <<"missing tag set">> =>
                       /\ steps \cap {9, 10, 11} = {}
                       /\ {1, 2, 4, 5, 6} \subseteq steps
                /\ (error = TryFromIntError /\ is_some(start) /\ ~fits_i32(unwrap(start))) =>
                       /\ steps \cap 5..11 = {}
                       /\ {1, 2, 4} \subseteq steps

\* both failures, each with its earlier fields left in the streams
C4_Witness ==
    /\ Len(calls) = 2
    /\ calls[1].result = InvalidInput(<<"missing tag set">>)
    /\ calls[2].result = InvalidInput(TryFromIntError)
    /\ Len(EventsOf(1)) >= 5
    /\ Len(EventsOf(2)) >= 3

(* C5: encoding a record whose ordered (tag key, value type) list is       *)
(* absent from the header's tag sets fails with the missing-tag-set error  *)
(* (the invariant-violation class of the error taxonomy); the record is    *)
(* not written, and neither a tag set id nor a tag value of it is encoded. *)
ErrorClass(res) ==
    CASE res.kind = "Ok" -> "Ok"
      [] res.error = <<"missing tag set">> -> "InvariantViolation"
      [] res.error = TryFromIntError -> "ValueOutOfRange"
      [] res.error[1] \in {"MissingDataSeriesEncoding", "MissingTagEncoding"} ->
             "MissingEncoding"
      [] OTHER -> "Other"

HeaderTagSets ==
    {compression_header.preservation_map.tag_sets[i] :
        i \in 1..Len(compression_header.preservation_map.tag_sets)}

C5_MissingTagSet ==
    \A k \in 1..Len(calls) :
        TagSetOf(calls[k].record.data) \notin HeaderTagSets =>
            /\ ~Succeeded(k)
            /\ calls[k].result = InvalidInput(<<"missing tag set">>)
            /\ ErrorClass(calls[k].result) = "InvariantViolation"
            /\ Count(k, "TagSetIds") = 0
            /\ Count(k, "Tag") = 0

\* the header knows NH:c alone; records with NH:s, and with NH:c and CO:Z
C5_Witness ==
    /\ HeaderTagSets = {<<Key("NH", "Int8")>>}
    /\ Len(calls) = 2
    /\ calls[1].record.data = <<NH16>>
    /\ calls[2].record.data = <<NH, CO>>
    /\ ~Succeeded(1) /\ ~Succeeded(2)

(* C6: build_tag_sets returns the distinct ordered (tag key, value type)   *)
(* lists of the batch's records, none twice, in the order of their first   *)
(* occurrence; lists with the same keys in another order are distinct      *)
(* entries and a record without tags contributes the empty list.           *)
FirstOccurrence(tag_set) ==
    CHOOSE b \in 1..Len(records) :
        /\ TagSetOf(records[b].data) = tag_set
        /\ \A c \in 1..(b - 1) : TagSetOf(records[c].data) # tag_set

C6_TagSetsDistinctInOrder ==
    pc = "write" =>
        LET tag_sets == compression_header.preservation_map.tag_sets
        IN  /\ HeaderTagSets = {TagSetOf(records[b].data) : b \in 1..Len(records)}
            /\ \A i, j \in 1..Len(tag_sets) : tag_sets[i] = tag_sets[j] => i = j
            /\ \A i, j \in 1..Len(tag_sets) :
                   i < j => FirstOccurrence(tag_sets[i]) < FirstOccurrence(tag_sets[j])
            /\ (\E b \in 1..Len(records) : records[b].data = <<>>) => <<>> \in HeaderTagSets

\* CO,NH then NH,CO then CO,NH again: two entries, in that order
C6_Witness ==
    /\ pc = "write"
    /\ Len(records) = 3
    /\ records[1].data = <<CO, NH>>
    /\ records[2].data = <<NH, CO>>
    /\ records[3].data = <<CO, NH>>
    /\ compression_header.preservation_map.tag_sets =
           <<TagSetOf(<<CO, NH>>), TagSetOf(<<NH, CO>>)>>

(* C7: for a record of the batch the header's tag sets were built from,    *)
(* write_tags finds the record's tag set and encodes as tag set id the one *)
(* index that holds it, then the record's tag values in the record's tag   *)
(* order, each under the content id of its (tag key, value type) and each  *)
(* carrying that tag's value bytes alone; with an encoding bound to every  *)
(* content id of the record, all its tag values are encoded.               *)
C7_TagsOfBatchRecords ==
    \A k \in 1..Len(calls) :
        (\E b \in 1..Len(records) : records[b] = calls[k].record) =>
            LET tag_sets == compression_header.preservation_map.tag_sets
                data == calls[k].record.data
                ids == ValuesOf(k, "TagSetIds")
                tags == SelectSeq(EventsOf(k), LAMBDA e : e.series = "Tag")
                bound == \A i \in 1..Len(data) :
                             ContentId(Key(data[i][1], data[i][2].ty))
                                 \in compression_header.tag_encodings
            IN  /\ Len(ids) = 1
                /\ ids[1] \in 0..(Len(tag_sets) - 1)
                /\ \A j \in 1..Len(tag_sets) :
                       tag_sets[j] = TagSetOf(data) <=> j = ids[1] + 1
                /\ Len(tags) <= Len(data)
                /\ \A i \in 1..Len(tags) :
                       /\ tags[i].key = ContentId(Key(data[i][1], data[i][2].ty))
                       /\ tags[i].key \in compression_header.tag_encodings
                       /\ tags[i].value = data[i][2].bytes
                /\ bound => Succeeded(k) /\ Len(tags) = Len(data)

\* a record with two tags whose tag set is the second of the header
C7_Witness ==
    /\ Len(records) >= 2
    /\ Len(calls) >= 1
    /\ calls[1].record = records[2]
    /\ calls[1].record.data = <<NH, CO>>
    /\ ValuesOf(1, "TagSetIds") = <<1>>
    /\ Count(1, "Tag") = 2

(* C8: a record's reference sequence id is encoded if and only if the      *)
(* slice's reference sequence context is "many": with no context or a      *)
(* single-reference context none is encoded for any record, with "many"    *)
(* one is encoded (-1 for a missing id) for every record.                  *)
C8_ReferenceIdIffMany ==
    \A k \in 1..Len(calls) :
        LET ids == ValuesOf(k, "ReferenceSequenceIds")
            id == calls[k].record.reference_sequence_id
        IN  /\ ~is_many(reference_sequence_context) => Len(ids) = 0
            /\ (is_many(reference_sequence_context)
                    /\ (Succeeded(k) \/ Count(k, "ReadLengths") > 0)) =>
                   ids = <<IF is_some(id) THEN unwrap(id) ELSE -1>>

C8_Witness ==
    /\ is_many(reference_sequence_context)
    /\ Len(calls) = 2
    /\ ValuesOf(1, "ReferenceSequenceIds") = <<1>>
    /\ ValuesOf(2, "ReferenceSequenceIds") = <<-1>>

(* C9: a record's name is encoded once, right after the read group id,     *)
(* when read names are included; once, in the mate block right after the   *)
(* mate flags, when they are not and the record is detached; and not at    *)
(* all otherwise.  No record's name is encoded twice.                      *)
C9_NameOnce ==
    \A k \in 1..Len(calls) :
        LET events == EventsOf(k)
            at == {i \in 1..Len(events) : events[i].series = "Names"}
            included == compression_header.preservation_map.read_names_included
            detached == is_detached(calls[k].record.cram_flags)
            name == calls[k].record.name
        IN  /\ Cardinality(at) <= 1
            /\ \A i \in at :
                   /\ i > 1
                   /\ events[i - 1].series =
                          IF included THEN "ReadGroupIds" ELSE "MateFlags"
                   /\ included \/ detached
                   /\ events[i].value = IF is_some(name) THEN unwrap(name) ELSE MISSING_NAME
            /\ (Succeeded(k) \/ Count(k, "TagSetIds") > 0) =>
                   (Cardinality(at) = 1 <=> (included \/ detached))

\* names not included: a detached record with its name in the mate block,
\* and a record that is not detached without a name
C9_Witness ==
    /\ ~compression_header.preservation_map.read_names_included
    /\ Len(calls) = 2
    /\ Succeeded(1) /\ Succeeded(2)
    /\ is_detached(calls[1].record.cram_flags)
    /\ ValuesOf(1, "Names") = <<<<114, 49>>>>
    /\ is_some(calls[2].record.name)
    /\ Count(2, "Names") = 0

(* C10: for a detached record write_mate encodes mate flags, the name      *)
(* (only if names are not included), mate reference sequence id, mate      *)
(* alignment start and template length, in this order, and never a mate    *)
(* distance; for a record that is not detached it encodes the mate         *)
(* distance alone when distance_to_mate is known and nothing otherwise.    *)
ExpectedMateBlock(record) ==
    IF is_detached(record.cram_flags)
    THEN <<[series |-> "MateFlags", value |-> record.mate_flags]>>
         \o (IF compression_header.preservation_map.read_names_included THEN <<>>
             ELSE <<[series |-> "Names",
                     value |-> IF is_some(record.name)
                               THEN unwrap(record.name) ELSE MISSING_NAME]>>)
         \o <<[series |-> "MateReferenceSequenceId",
               value |-> IF is_some(record.mate_reference_sequence_id)
                         THEN unwrap(record.mate_reference_sequence_id) ELSE -1],
              [series |-> "MateAlignmentStart",
               value |-> StartOf(record.mate_alignment_start)],
              [series |-> "TemplateLengths", value |-> record.template_length]>>
    ELSE IF is_some(record.distance_to_mate)
    THEN <<[series |-> "MateDistances", value |-> unwrap(record.distance_to_mate)]>>
    ELSE <<>>

MateBlockOf(k) ==
    SelectSeq(EventsOf(k),
              LAMBDA e : \/ e.series \in MateSeries
                         \/ /\ e.series = "Names"
                            /\ ~compression_header.preservation_map.read_names_included)

C10_MateBlock ==
    \A k \in 1..Len(calls) :
        LET block == MateBlockOf(k)
            expected == ExpectedMateBlock(calls[k].record)
        IN  /\ Len(block) <= Len(expected)
            /\ \A i \in 1..Len(block) :
                   /\ block[i].series = expected[i].series
                   /\ block[i].value = expected[i].value
            /\ (Succeeded(k) \/ Count(k, "TagSetIds") > 0) => Len(block) = Len(expected)

\* a detached record with a known mate distance, and a record that is not
\* detached with one
C10_Witness ==
    /\ ~compression_header.preservation_map.read_names_included
    /\ Len(calls) = 2
    /\ Succeeded(1) /\ Succeeded(2)
    /\ is_detached(calls[1].record.cram_flags)
    /\ is_some(calls[1].record.distance_to_mate)
    /\ Len(MateBlockOf(1)) = 5
    /\ Count(1, "MateDistances") = 0
    /\ ~is_detached(calls[2].record.cram_flags)
    /\ ValuesOf(2, "MateDistances") = <<2>>
    /\ Len(MateBlockOf(2)) = 1

----------------------------------------------------------------------------
(* C11: a record that needs a data-series encoding or a tag encoding the   *)
(* header lacks is refused with a MissingEncoding error that names the     *)
(* series (MissingDataSeriesEncoding) or the tag key (MissingTagEncoding); *)
(* nothing is encoded for that field and for any later field.  A record    *)
(* that does not need the absent encoding is written without error.        *)

\* the data series the payload of a feature is written with
FeatureSeries(feature) ==
    {"FeatureCodes", "FeaturePositionDeltas"}
    \cup CASE feature.kind = "Bases" -> {"StretchesOfBases"}
           [] feature.kind = "Scores" -> {"StretchesOfQualityScores"}
           [] feature.kind = "ReadBase" -> {"Bases", "QualityScores"}
           [] feature.kind = "Substitution" -> {"BaseSubstitutionCodes"}
           [] feature.kind = "Insertion" -> {"InsertionBases"}
           [] feature.kind = "Deletion" -> {"DeletionLengths"}
           [] feature.kind = "InsertBase" -> {"Bases"}
           [] feature.kind = "QualityScore" -> {"QualityScores"}
           [] feature.kind = "ReferenceSkip" -> {"ReferenceSkipLengths"}
           [] feature.kind = "SoftClip" -> {"SoftClipBases"}
           [] feature.kind = "Padding" -> {"PaddingLengths"}
           [] feature.kind = "HardClip" -> {"HardClipLengths"}

\* the data series a record needs under the header and context at hand
NeededSeries(record) ==
    {"BamFlags", "CramFlags", "ReadLengths", "AlignmentStarts", "ReadGroupIds",
     "TagSetIds"}
    \cup (IF is_many(reference_sequence_context) THEN {"ReferenceSequenceIds"} ELSE {})
    \cup (IF compression_header.preservation_map.read_names_included
             \/ is_detached(record.cram_flags)
          THEN {"Names"} ELSE {})
    \cup (IF is_detached(record.cram_flags) THEN MateSeries \ {"MateDistances"}
          ELSE IF is_some(record.distance_to_mate) THEN {"MateDistances"} ELSE {})
    \cup (IF is_unmapped(record.bam_flags) THEN {"Bases"}
          ELSE {"FeatureCounts", "MappingQualities"}
               \cup UNION {FeatureSeries(record.features[i]) :
                              i \in 1..Len(record.features)})
    \cup (IF are_quality_scores_stored_as_array(record.cram_flags)
          THEN {"QualityScores"} ELSE {})

\* the tag content ids a record needs
NeededTags(record) ==
    {ContentId(TagSetOf(record.data)[i]) : i \in 1..Len(record.data)}

C11_MissingEncoding ==
    \A k \in 1..Len(calls) :
        LET record == calls[k].record
            res == calls[k].result
            series == NeededSeries(record) \ compression_header.data_series_encodings
            keys == NeededTags(record) \ compression_header.tag_encodings
            steps == {StepOf(SeriesOf(k)[i]) : i \in 1..Len(SeriesOf(k))}
        IN  /\ (series = {} /\ keys = {}) <=> Succeeded(k)
            /\ ~Succeeded(k) =>
                   /\ ErrorClass(res) = "MissingEncoding"
                   /\ \/ /\ res.error[1] = "MissingDataSeriesEncoding"
                         /\ res.error[2] \in series
                         /\ Count(k, res.error[2]) = 0
                         /\ \A step \in steps : step <= StepOf(res.error[2])
                         /\ res.error[2] \in {"FeatureCounts", "FeatureCodes"} =>
                                Count(k, "MappingQualities") = 0
                      \/ /\ res.error[1] = "MissingTagEncoding"
                         /\ ContentId(res.error[2]) \in keys
                         /\ \A i \in 1..Len(EventsOf(k)) :
                                EventsOf(k)[i].key # ContentId(res.error[2])
                         /\ 11 \notin steps

\* the header lacks the mate distance encoding: a record without a mate
\* distance is written, a record with one is refused
C11_Witness ==
    /\ "MateDistances" \notin compression_header.data_series_encodings
    /\ Len(calls) = 2
    /\ Succeeded(1)
    /\ calls[2].result = InvalidData(<<"MissingDataSeriesEncoding", "MateDistances">>)
    /\ Count(2, "TagSetIds") = 0
    /\ Count(2, "ReadGroupIds") = 1

----------------------------------------------------------------------------
(* C12: a reference id, read length, alignment start, read group id, mate  *)
(* position, mate distance, tag set id, feature count, feature position or *)
(* feature length that does not fit a signed 32-bit integer makes          *)
(* write_record return a value-out-of-range error; no truncated or wrapped *)
(* value is encoded for it, and every value that is encoded is the         *)
(* record's own.                                                           *)

\* the position deltas of a feature list, the first one from 0
PositionDeltas(features) ==
    [i \in 1..Len(features) |->
        features[i].position - (IF i = 1 THEN 0 ELSE features[i - 1].position)]

\* the series of a record whose value does not fit the wire width
OutOfRange(record) ==
    LET too_big(o) == is_some(o) /\ unwrap(o) > I32_MAX
        mapped == ~is_unmapped(record.bam_flags)
        features == record.features
        tag_set_id == tag_set_position(compression_header.preservation_map.tag_sets,
                                       TagSetOf(record.data))
    IN  {s \in DataSeries :
            \/ s = "ReferenceSequenceIds" /\ is_many(reference_sequence_context)
                                          /\ too_big(record.reference_sequence_id)
            \/ s = "ReadLengths" /\ record.read_length > I32_MAX
            \/ s = "AlignmentStarts" /\ too_big(record.alignment_start)
            \/ s = "ReadGroupIds" /\ too_big(record.read_group_id)
            \/ s = "MateAlignmentStart" /\ is_detached(record.cram_flags)
                                        /\ too_big(record.mate_alignment_start)
            \/ s = "MateDistances" /\ ~is_detached(record.cram_flags)
                                   /\ too_big(record.distance_to_mate)
            \/ s = "TagSetIds" /\ too_big(tag_set_id)
            \/ s = "FeatureCounts" /\ mapped /\ Len(features) > I32_MAX
            \/ s = "FeaturePositionDeltas"
                   /\ mapped
                   /\ \E i \in 1..Len(features) : PositionDeltas(features)[i] > I32_MAX
            \/ s = "DeletionLengths"
                   /\ mapped
                   /\ \E i \in 1..Len(features) :
                          features[i].kind = "Deletion" /\ features[i].len > I32_MAX}

IntegerSeries ==
    {"ReferenceSequenceIds", "ReadLengths", "AlignmentStarts", "ReadGroupIds",
     "MateReferenceSequenceId", "MateAlignmentStart", "TemplateLengths",
     "MateDistances", "TagSetIds", "FeatureCounts", "FeaturePositionDeltas",
     "DeletionLengths"}

C12_ValueOutOfRange ==
    \A k \in 1..Len(calls) :
        LET record == calls[k].record
            res == calls[k].result
            bad == OutOfRange(record)
            steps == {StepOf(SeriesOf(k)[i]) : i \in 1..Len(SeriesOf(k))}
        IN  /\ bad # {} =>
                   /\ ErrorClass(res) = "ValueOutOfRange"
                   /\ \E s \in bad :
                          /\ \A step \in steps : step <= StepOf(s)
                          /\ StepOf(s) < 11 => Count(k, s) = 0
                          /\ s = "FeatureCounts" => 11 \notin steps
                          /\ Count(k, "MappingQualities") = 0
            /\ bad = {} => Succeeded(k)
            /\ \A i \in 1..Len(EventsOf(k)) :
                   EventsOf(k)[i].series \in IntegerSeries =>
                       /\ EventsOf(k)[i].value \in (-I32_MAX - 1)..I32_MAX
                       /\ EventsOf(k)[i].series = "ReadLengths" =>
                              EventsOf(k)[i].value = record.read_length
                       /\ EventsOf(k)[i].series = "FeatureCounts" =>
                              EventsOf(k)[i].value = Len(record.features)
            /\ ValuesOf(k, "FeaturePositionDeltas")
                   = SubSeq(PositionDeltas(record.features), 1,
                            Count(k, "FeaturePositionDeltas"))

\* a tag set id one past the limit is refused after the read group id was
\* encoded; a feature position at the limit is written as it is
C12_Witness ==
    /\ Len(calls) = 2
    /\ calls[1].record.data = <<NH>>
    /\ calls[1].result = InvalidInput(TryFromIntError)
    /\ Count(1, "ReadGroupIds") = 1
    /\ Count(1, "TagSetIds") = 0
    /\ Succeeded(2)
    /\ ValuesOf(2, "FeaturePositionDeltas") = <<I32_MAX>>

----------------------------------------------------------------------------
(* C13: the read body of a written unmapped record is its sequence bytes,  *)
(* followed by its quality scores exactly when the flags store them as an  *)
(* array; the read body of a written mapped record is the feature count,   *)
(* then the features in list order, then the mapping quality (0xff when    *)
(* missing), then the quality scores exactly when the flags store them as  *)
(* an array.  The encoded feature count is the number of features encoded  *)
(* after it.                                                               *)

\* the read body of the k-th call: its events after the tags
BodyOf(k) ==
    LET body == SelectSeq(EventsOf(k), LAMBDA e : StepOf(e.series) = 11)
    IN  [i \in 1..Len(body) |-> <<body[i].series, body[i].value>>]

\* the quality scores at the end of a read body
ExpectedQualityScores(record) ==
    IF are_quality_scores_stored_as_array(record.cram_flags)
    THEN <<<<"QualityScores", record.quality_scores>>>> ELSE <<>>

C13_ReadBody ==
    \A k \in 1..Len(calls) :
        Succeeded(k) =>
            LET record == calls[k].record
                body == BodyOf(k)
                n == Len(body)
                tail == ExpectedQualityScores(record)
            IN  IF is_unmapped(record.bam_flags)
                THEN body = <<<<"Bases", record.sequence>>>> \o tail
                ELSE /\ n >= 2 + Len(tail)
                     /\ body[1] = <<"FeatureCounts", Len(record.features)>>
                     /\ ValuesOf(k, "FeatureCounts") = <<Count(k, "FeatureCodes")>>
                     /\ ValuesOf(k, "FeatureCodes")
                            = [i \in 1..Len(record.features) |-> record.features[i].kind]
                     /\ body[n - Len(tail)]
                            = <<"MappingQualities",
                                IF is_some(record.mapping_quality)
                                THEN unwrap(record.mapping_quality) ELSE 255>>
                     /\ SubSeq(body, n - Len(tail) + 1, n) = tail
                     /\ Count(k, "MappingQualities") = 1
                     /\ \A i \in 2..(n - Len(tail) - 1) :
                            body[i][1] \in UNION {FeatureSeries(record.features[j]) :
                                                     j \in 1..Len(record.features)}

\* an unmapped record with verbatim quality scores, then a mapped record
\* without features, mapping quality and verbatim quality scores
C13_Witness ==
    /\ Len(calls) = 2
    /\ Succeeded(1) /\ Succeeded(2)
    /\ is_unmapped(calls[1].record.bam_flags)
    /\ BodyOf(1) = <<<<"Bases", <<65, 67, 71, 84>>>>, <<"QualityScores", <<30, 31, 32, 33>>>>>>
    /\ calls[2].record.features = <<>>
    /\ BodyOf(2) = <<<<"FeatureCounts", 0>>, <<"MappingQualities", 255>>>>

----------------------------------------------------------------------------
(* C14: each feature of a mapped record is encoded as its feature code,    *)
(* then its position, then the payload of its kind.  The position encoded  *)
(* for the first feature is its own 1-based position, and for every later  *)
(* feature its position minus the position of the feature before it in the *)
(* same record: the previous position starts at 0 for every record.        *)

\* the payload of a feature, as (data series, value) pairs
ExpectedPayload(feature) ==
    CASE feature.kind = "Bases" -> <<<<"StretchesOfBases", feature.bases>>>>
      [] feature.kind = "Scores" ->
             <<<<"StretchesOfQualityScores", feature.quality_scores>>>>
      [] feature.kind = "ReadBase" ->
             <<<<"Bases", feature.base>>, <<"QualityScores", feature.quality_score>>>>
      [] feature.kind = "Substitution" ->
             <<<<"BaseSubstitutionCodes", <<feature.reference_base, feature.read_base>>>>>>
      [] feature.kind = "Insertion" -> <<<<"InsertionBases", feature.bases>>>>
      [] feature.kind = "Deletion" -> <<<<"DeletionLengths", feature.len>>>>
      [] feature.kind = "InsertBase" -> <<<<"Bases", feature.base>>>>
      [] feature.kind = "QualityScore" -> <<<<"QualityScores", feature.quality_score>>>>
      [] feature.kind = "ReferenceSkip" -> <<<<"ReferenceSkipLengths", feature.len>>>>
      [] feature.kind = "SoftClip" -> <<<<"SoftClipBases", feature.bases>>>>
      [] feature.kind = "Padding" -> <<<<"PaddingLengths", feature.len>>>>
      [] feature.kind = "HardClip" -> <<<<"HardClipLengths", feature.len>>>>

\* the first n features of a list, each as code, position delta, payload
RECURSIVE ExpectedFeatures(_, _)
ExpectedFeatures(features, n) ==
    IF n = 0 THEN <<>>
    ELSE ExpectedFeatures(features, n - 1)
         \o <<<<"FeatureCodes", features[n].kind>>,
              <<"FeaturePositionDeltas", PositionDeltas(features)[n]>>>>
         \o ExpectedPayload(features[n])

C14_FeaturePositions ==
    \A k \in 1..Len(calls) :
        LET record == calls[k].record
            body == BodyOf(k)
            written == Count(k, "MappingQualities")
            n == Count(k, "FeaturePositionDeltas")
            features == SubSeq(body, 2, Len(body) - written
                                        - (IF Succeeded(k)
                                           THEN Len(ExpectedQualityScores(record)) ELSE 0))
        IN  (~is_unmapped(record.bam_flags) /\ body # <<>>) =>
                /\ Succeeded(k) => n = Len(record.features)
                /\ n <= Len(record.features)
                /\ \/ features = ExpectedFeatures(record.features, n)
                   \/ /\ ~Succeeded(k)
                      /\ n < Len(record.features)
                      /\ features = ExpectedFeatures(record.features, n)
                                        \o <<<<"FeatureCodes", record.features[n + 1].kind>>>>

\* two records with features in a row: the second record's first feature
\* lies before the first record's last one and is written as it is
C14_Witness ==
    /\ Len(calls) = 2
    /\ Succeeded(1) /\ Succeeded(2)
    /\ ValuesOf(1, "FeaturePositionDeltas") = <<1, 1, 1, 1, 0>>
    /\ ValuesOf(2, "FeaturePositionDeltas") = <<2, 0, 2, 0>>
    /\ ValuesOf(2, "FeatureCodes") = <<"Substitution", "Insertion", "Deletion", "InsertBase">>

----------------------------------------------------------------------------
(* codecs::aac::encode: the encoder of the adaptive arithmetic coder.      *)
(*                                                                         *)
(* The destination buffer is a sequence of items: a byte written as it is  *)
(* ("u8"), a symbol handed to Model::encode with the index of the model    *)
(* in use ("sym"), the flush of the range coder ("range_encode_end") and   *)
(* the output of the external compressor ("bzip2").  Model and RangeCoder  *)
(* are outside this development: what they put into the buffer for a       *)
(* symbol is kept as the symbol itself.                                    *)

\* bytes of an input
MaxLen == 3

Bytes == {0, 115, 255}

AacFlags == {"ORDER", "EXT", "STRIPE", "NO_SIZE", "CAT", "RLE", "PACK"}

flag_bits(flag) ==
    CASE flag = "ORDER" -> 1
      [] flag = "EXT" -> 4
      [] flag = "STRIPE" -> 8
      [] flag = "NO_SIZE" -> 16
      [] flag = "CAT" -> 32
      [] flag = "RLE" -> 64
      [] flag = "PACK" -> 128

\* u8::from(flags)
RECURSIVE u8_from_flags(_)
u8_from_flags(flags) ==
    IF flags = {} THEN 0
    ELSE LET flag == CHOOSE f \in flags : TRUE
         IN  flag_bits(flag) + u8_from_flags(flags \ {flag})

\* Flags::from(u8)
flags_from_u8(n) == {flag \in AacFlags : (n \div flag_bits(flag)) % 2 = 1}

u8(b) == [kind |-> "u8", value |-> b, ctx |-> 0]

\* dst.write_u8(b), dst.write_all(buf)
write_u8(dst, b) == Append(dst, u8(b))
write_all(dst, buf) == dst \o [i \in 1..Len(buf) |-> u8(buf[i])]

\* the bytes of write_uint7(n): base-128 groups, the least significant one
\* first, the continuation bit set on every group but the last
RECURSIVE uint7(_)
uint7(n) == IF n < 128 THEN <<n>> ELSE <<(n % 128) + 128>> \o uint7(n \div 128)

\* read_uint7 at items[i]: the value and the index after it
RECURSIVE read_uint7(_, _)
read_uint7(items, i) ==
    IF items[i].value < 128 THEN [value |-> items[i].value, next |-> i + 1]
    ELSE LET rest == read_uint7(items, i + 1)
         IN  [value |-> (items[i].value - 128) + 128 * rest.value, next |-> rest.next]

\* the members of a set of bytes in ascending order
RECURSIVE sorted(_)
sorted(S) ==
    IF S = {} THEN <<>>
    ELSE LET least == CHOOSE x \in S : \A y \in S : x <= y
         IN  <<least>> \o sorted(S \ {least})

\* encode_pack(src): the header lists the symbols in use, the buffer holds
\* for every input byte the index of its symbol in that list (the codes are
\* kept one per element, not merged into bytes)
encode_pack(src) ==
    LET symbols == sorted({src[i] : i \in 1..Len(src)})
        code(b) == (CHOOSE j \in 1..Len(symbols) : symbols[j] = b) - 1
        buf == [i \in 1..Len(src) |-> code(src[i])]
    IN  [header |-> <<Len(symbols)>> \o symbols \o uint7(Len(buf)), buf |-> buf]

\* encode_ext(src, dst): the external compressor's stream
encode_ext(src, dst) ==
    dst \o <<[kind |-> "bzip2", value |-> Len(src), ctx |-> 0]>>
        \o [i \in 1..Len(src) |-> [kind |-> "bzip2", value |-> src[i], ctx |-> 0]]

\* models[ctx].encode(dst, &mut range_coder, sym)
model_encode(dst, ctx, sym) == Append(dst, [kind |-> "sym", value |-> sym, ctx |-> ctx])

\* range_coder.range_encode_end(dst)
range_encode_end(dst) == Append(dst, [kind |-> "range_encode_end", value |-> 0, ctx |-> 0])

\* src.iter().max().copied().unwrap_or(0)
max_sym(src) ==
    IF src = <<>> THEN 0
    ELSE CHOOSE m \in {src[i] : i \in 1..Len(src)} : \A i \in 1..Len(src) : src[i] <= m

\* faulty variant: the maximum symbol itself is written
max_sym_as_is(sym, overflow_checks) == Some(sym)

\* max_sym + 1 in u8: with overflow checks 255 + 1 panics (None), without
\* them it wraps around to 0
max_sym_plus_1(sym, overflow_checks) ==
    IF sym + 1 > 255
    THEN IF overflow_checks THEN None ELSE Some((sym + 1) % 256)
    ELSE Some(sym + 1)

\* for &sym in src { model.encode(dst, &mut range_coder, sym)?; }
RECURSIVE encode_symbols_0(_, _, _)
encode_symbols_0(dst, src, i) ==
    IF i > Len(src) THEN dst
    ELSE encode_symbols_0(model_encode(dst, 0, src[i]), src, i + 1)

encode_order_0(src, dst, overflow_checks) ==
    LET n == max_sym_plus_1(max_sym(src), overflow_checks)
    IN  IF ~is_some(n)
        THEN [res |-> Panic(<<"attempt to add with overflow">>), dst |-> dst]
        ELSE [res |-> Ok,
              dst |-> range_encode_end(encode_symbols_0(write_u8(dst, unwrap(n)), src, 1))]

\* for window in src.windows(2) { models[window[0]].encode(.., window[1])?; }
RECURSIVE encode_symbols_1(_, _, _)
encode_symbols_1(dst, src, i) ==
    IF i >= Len(src) THEN dst
    ELSE encode_symbols_1(model_encode(dst, src[i], src[i + 1]), src, i + 1)

encode_order_1(src, dst, overflow_checks) ==
    LET n == max_sym_plus_1(max_sym(src), overflow_checks)
    IN  IF ~is_some(n)
        THEN [res |-> Panic(<<"attempt to add with overflow">>), dst |-> dst]
        ELSE IF src = <<>>
        THEN [res |-> Panic(<<"index out of bounds">>), dst |-> write_u8(dst, unwrap(n))]
        ELSE [res |-> Ok,
              dst |-> range_encode_end(
                          encode_symbols_1(
                              model_encode(write_u8(dst, unwrap(n)), 0, src[1]), src, 1))]

\* faulty variant: the size is written whether or not NO_SIZE is set
write_size_always(dst, flags, src) == write_all(dst, uint7(Len(src)))

\* if !flags.contains(Flags::NO_SIZE) { write_uint7(&mut dst, ulen)?; }; the
\* lengths at hand fit u32
write_size(dst, flags, src) ==
    IF "NO_SIZE" \notin flags THEN write_all(dst, uint7(Len(src))) ELSE dst

\* aac::encode(flags, src): the result and, when it is Ok, the buffer
aac_encode(flags, src, overflow_checks) ==
    LET dst1 == write_size(write_u8(<<>>, u8_from_flags(flags)), flags, src)
        pack == IF "PACK" \in flags THEN encode_pack(src)
                ELSE [header |-> <<>>, buf |-> src]
        dst2 == write_all(dst1, pack.header)
    IN  IF "STRIPE" \in flags
        THEN [res |-> Panic(<<"not yet implemented: encode_stripe">>), dst |-> <<>>]
        ELSE IF "CAT" \in flags THEN [res |-> Ok, dst |-> write_all(dst2, pack.buf)]
        ELSE IF "EXT" \in flags THEN [res |-> Ok, dst |-> encode_ext(pack.buf, dst2)]
        ELSE IF "RLE" \in flags
        THEN IF "ORDER" \in flags
             THEN [res |-> Panic(<<"not yet implemented: encode_rle_1">>), dst |-> <<>>]
             ELSE [res |-> Panic(<<"not yet implemented: encode_rle_0">>), dst |-> <<>>]
        ELSE LET body == IF "ORDER" \in flags
                         THEN encode_order_1(pack.buf, dst2, overflow_checks)
                         ELSE encode_order_0(pack.buf, dst2, overflow_checks)
             IN  [res |-> body.res, dst |-> IF is_ok(body.res) THEN body.dst ELSE <<>>]

\* the layout of an encoded buffer: the flags, the size, the symbols of the
\* pack header and the index the body starts at
layout(items, len) ==
    LET flags == flags_from_u8(items[1].value)
        size == IF "NO_SIZE" \in flags THEN [value |-> len, next |-> 2]
                ELSE read_uint7(items, 2)
        n_sym == items[size.next].value
        packed_len == read_uint7(items, size.next + n_sym + 1)
    IN  IF "PACK" \in flags
        THEN [flags |-> flags, size |-> size.value,
              symbols |-> [j \in 1..n_sym |-> items[size.next + j].value],
              body |-> packed_len.next]
        ELSE [flags |-> flags, size |-> size.value, symbols |-> <<>>, body |-> size.next]

\* aac::decode(src, len): the bytes the decoder hands back; the symbols of
\* an order-0 or order-1 body are taken out of the items Model::encode left
decode(items, len) ==
    LET at == layout(items, len)
        body == SubSeq(items, at.body, Len(items))
        coded == IF "CAT" \in at.flags THEN body
                 ELSE IF "EXT" \in at.flags THEN Tail(body)
                 ELSE SelectSeq(body, LAMBDA item : item.kind = "sym")
        raw == [i \in 1..Len(coded) |-> coded[i].value]
        data == IF "PACK" \in at.flags THEN [i \in 1..Len(raw) |-> at.symbols[raw[i] + 1]]
                ELSE raw
    IN  IF "STRIPE" \in at.flags \/ ("RLE" \in at.flags /\ {"CAT", "EXT"} \cap at.flags = {})
        THEN [res |-> InvalidData(<<"UnsupportedFeature">>), data |-> <<>>]
        ELSE IF Len(data) # at.size
        THEN [res |-> InvalidData(<<"MalformedInput">>), data |-> <<>>]
        ELSE [res |-> Ok, data |-> data]

\* inputs of aac::encode
AacInputs == [flags : SUBSET AacFlags, src : SeqsUpTo(Bytes, MaxLen)]

\* the writer takes no part in a function call
NoWriter ==
    /\ records = <<>>
    /\ compression_header = empty_compression_header(FALSE, FALSE)
    /\ reference_sequence_context = <<"None">>
    /\ prev_alignment_start = None
    /\ out = <<>>
    /\ calls = <<>>

\* SpecAac: aac::encode on one input, then aac::decode on what it returned
InitAac ==
    /\ NoWriter
    /\ pc = "call"
    /\ input \in AacInputs
    /\ output = <<>>

AacEncode ==
    /\ pc = "call"
    /\ \E overflow_checks \in BOOLEAN :
         \E encoded \in {aac_encode(input.flags, input.src, overflow_checks)} :
             output' = [res |-> encoded.res, dst |-> encoded.dst, decoded |-> None]
    /\ pc' = "returned"
    /\ UNCHANGED <<records, compression_header, reference_sequence_context,
                   prev_alignment_start, out, calls, input>>

AacDecode ==
    /\ pc = "returned"
    /\ is_ok(output.res)
    /\ output' = [output EXCEPT !.decoded = Some(decode(output.dst, Len(input.src)))]
    /\ pc' = "decoded"
    /\ UNCHANGED <<records, compression_header, reference_sequence_context,
                   prev_alignment_start, out, calls, input>>

NextAac == AacEncode \/ AacDecode

SpecAac == InitAac /\ [][NextAac]_vars

\* the items of the body of an encoded buffer
AacBody == SubSeq(output.dst, layout(output.dst, Len(input.src)).body, Len(output.dst))

\* the bytes handed to the body encoder: the packed input when PACK is set
AacBodyInput == IF "PACK" \in input.flags THEN encode_pack(input.src).buf ELSE input.src

\* the call ran an order-0 or an order-1 body
IsModelled == input.flags \cap {"STRIPE", "CAT", "EXT", "RLE"} = {}

Returned == pc \in {"returned", "decoded"}

----------------------------------------------------------------------------
(* C15: for every byte sequence s, the empty one and those that contain    *)
(* byte 255 among them, aac::encode in order-0 and in order-1 mode returns *)
(* a buffer, and decoding that buffer gives s back.                        *)
C15_RoundTrip ==
    (Returned /\ input.flags \subseteq {"ORDER"}) =>
        /\ is_ok(output.res)
        /\ pc = "decoded" =>
               /\ is_ok(unwrap(output.decoded).res)
               /\ unwrap(output.decoded).data = input.src

----------------------------------------------------------------------------
(* C16: a buffer aac::encode returns is, in this order, one byte holding   *)
(* the caller's flags, the input's length as a uint7 exactly when NO_SIZE  *)
(* is not set, the pack header exactly when PACK is set, and the body.     *)
(* With CAT the body is the input bytes (the packed ones under PACK) as    *)
(* they are: aac::encode(CAT, s) is 0x20, the length of s, then s.         *)

\* the values of the items of a buffer
ValuesIn(items) == [i \in 1..Len(items) |-> items[i].value]

C16_WireShape ==
    (Returned /\ is_ok(output.res)) =>
        LET flags == input.flags
            src == input.src
            dst == output.dst
            size == IF "NO_SIZE" \in flags THEN <<>> ELSE uint7(Len(src))
            header == IF "PACK" \in flags THEN encode_pack(src).header ELSE <<>>
            head == <<u8_from_flags(flags)>> \o size \o header
            body == SubSeq(dst, Len(head) + 1, Len(dst))
        IN  /\ Len(dst) >= Len(head)
            /\ SubSeq(dst, 1, Len(head)) = [i \in 1..Len(head) |-> u8(head[i])]
            /\ "CAT" \in flags =>
                   body = [i \in 1..Len(AacBodyInput) |-> u8(AacBodyInput[i])]
            /\ "CAT" \notin flags =>
                   /\ body # <<>>
                   /\ "EXT" \in flags <=> \A i \in 1..Len(body) : body[i].kind = "bzip2"
                   /\ "EXT" \notin flags => body[Len(body)].kind = "range_encode_end"
            /\ flags = {"CAT"} => ValuesIn(dst) = <<32, Len(src)>> \o src

\* CAT alone on three bytes
C16_Witness ==
    /\ Returned
    /\ is_ok(output.res)
    /\ input.flags = {"CAT"}
    /\ ValuesIn(output.dst) = <<32, 3, 115, 0, 255>>

----------------------------------------------------------------------------
(* C17, as claimed: the first byte of an order-0 body, and of an order-1   *)
(* body, is the maximum symbol value of the bytes that are encoded.        *)
C17_FirstByteIsMaxSymbol ==
    (Returned /\ is_ok(output.res) /\ IsModelled) =>
        AacBody[1] = u8(max_sym(AacBodyInput))

(* C17, amended: the first byte of an order-0 body, and of an order-1      *)
(* body, is the maximum symbol value of the bytes that are encoded plus    *)
(* one, the number of symbols of the model (0 for an empty input counts as *)
(* maximum 0, so the byte is 1); when the maximum is 255 and the buffer is *)
(* returned, the byte has wrapped around to 0.                             *)
C17_FirstByteIsSymbolCount ==
    (Returned /\ is_ok(output.res) /\ IsModelled) =>
        AacBody[1] = u8((max_sym(AacBodyInput) + 1) % 256)

\* order 0 on the bytes 115, 0: the body starts with 116 (0x74)
C17_Witness ==
    /\ Returned
    /\ is_ok(output.res)
    /\ input = [flags |-> {}, src |-> <<115, 0>>]
    /\ AacBody[1] = u8(116)
    /\ Len(AacBody) = 4

----------------------------------------------------------------------------
(* C18: aac::encode called with STRIPE, or with RLE (with or without       *)
(* ORDER), returns an UnsupportedFeature error value to its caller.        *)
C18_UnsupportedFeature ==
    (Returned /\ input.flags \cap {"STRIPE", "RLE"} # {}) =>
        /\ output.res.kind \notin {"Ok", "Panic"}
        /\ output.res.error = <<"UnsupportedFeature">>

----------------------------------------------------------------------------
(* noodles-gff, lazy::Record: the field bounds of a line and the accessors *)
(* that slice the line with them.  A line is a sequence of characters.     *)

\* columns of a line
MaxColumns == 9

DELIMITER == "\t"

UnexpectedEof == [kind |-> "UnexpectedEof", error |-> <<>>]

\* read_field(src): the length up to and including the first delimiter, or
\* the whole length and is_eol when there is none
read_field(src) ==
    LET found == {i \in 1..Len(src) : src[i] = DELIMITER}
    IN  IF found # {}
        THEN [len |-> CHOOSE i \in found : \A j \in found : i <= j, is_eol |-> FALSE]
        ELSE [len |-> Len(src), is_eol |-> TRUE]

read_required_field(src) ==
    LET field == read_field(src)
    IN  IF field.is_eol THEN [res |-> UnexpectedEof, len |-> 0]
        ELSE [res |-> Ok, len |-> field.len]

\* Bounds::index(src): the eight ends reference_sequence_name_end ..
\* phase_end, in this order; len is the length read so far
RECURSIVE index_fields(_, _, _)
index_fields(src, ends, len) ==
    IF Len(ends) = 8 THEN [res |-> Ok, bounds |-> ends]
    ELSE LET field == read_required_field(SubSeq(src, len + 1, Len(src)))
         IN  IF ~is_ok(field.res) THEN [res |-> field.res, bounds |-> <<>>]
             ELSE index_fields(src, Append(ends, len + field.len), len + field.len)

index(src) == index_fields(src, <<>>, 0)

\* src[bounds.x_range()] of the n-th field: 0..end for the first field,
\* previous end..end for the next seven, phase_end.. for the attributes
slice(src, bounds, n) ==
    SubSeq(src, (IF n = 1 THEN 0 ELSE bounds[n - 1]) + 1,
           IF n = 9 THEN Len(src) ELSE bounds[n])

Digits == <<"0", "1", "2", "3", "4", "5", "6", "7", "8", "9">>

RECURSIVE parse_usize(_)
parse_usize(s) ==
    IF s = <<>> THEN 0
    ELSE 10 * parse_usize(SubSeq(s, 1, Len(s) - 1))
         + (CHOOSE d \in 1..10 : Digits[d] = s[Len(s)]) - 1

\* s.parse::<Position>(): a decimal number that is not 0
parse_position(s) ==
    IF s = <<>> \/ \E i \in 1..Len(s) : \A d \in 1..10 : Digits[d] # s[i]
    THEN [res |-> InvalidData(<<"ParseIntError">>), value |-> 0]
    ELSE IF parse_usize(s) = 0
    THEN [res |-> InvalidData(<<"TryFromIntError">>), value |-> 0]
    ELSE [res |-> Ok, value |-> parse_usize(s)]

\* s.parse::<Strand>()
parse_strand(s) ==
    IF s \in {<<".">>, <<"+">>, <<"-">>, <<"?">>} THEN [res |-> Ok, value |-> s[1]]
    ELSE [res |-> InvalidData(<<"ParseError">>), value |-> ""]

\* Record::try_new(src) and, when it is Ok, what each accessor returns
try_new(src) ==
    LET indexed == index(src)
        bounds == indexed.bounds
    IN  IF ~is_ok(indexed.res) THEN [res |-> indexed.res]
        ELSE [res |-> Ok,
              reference_sequence_name |-> slice(src, bounds, 1),
              source |-> slice(src, bounds, 2),
              ty |-> slice(src, bounds, 3),
              start |-> parse_position(slice(src, bounds, 4)),
              end |-> parse_position(slice(src, bounds, 5)),
              score |-> slice(src, bounds, 6),
              strand |-> parse_strand(slice(src, bounds, 7)),
              phase |-> slice(src, bounds, 8),
              attributes |-> IF slice(src, bounds, 9) = <<".">> THEN <<>>
                             ELSE slice(src, bounds, 9)]

\* lines of one to MaxColumns columns, each column a number or a "."
GffColumns == {<<"1", "2">>, <<".">>}

RECURSIVE join(_)
join(columns) ==
    IF Len(columns) = 1 THEN columns[1]
    ELSE join(SubSeq(columns, 1, Len(columns) - 1)) \o <<DELIMITER>> \o columns[Len(columns)]

GffLines == {join(columns) : columns \in SeqsUpTo(GffColumns, MaxColumns) \ {<<>>}}

\* SpecGff: Record::try_new on one line, and every accessor of the record
InitGff ==
    /\ NoWriter
    /\ pc = "call"
    /\ input \in GffLines
    /\ output = <<>>

GffTryNew ==
    /\ pc = "call"
    /\ output' = try_new(input)
    /\ pc' = "returned"
    /\ UNCHANGED <<records, compression_header, reference_sequence_context,
                   prev_alignment_start, out, calls, input>>

NextGff == GffTryNew

SpecGff == InitGff /\ [][NextGff]_vars

----------------------------------------------------------------------------
(* C19: the accessors of a lazy GFF record return the text of the line's   *)
(* columns as it is: reference_sequence_name, source, ty, score and phase  *)
(* are columns 1, 2, 3, 6 and 8 without any tab, start, end and strand are *)
(* parsed from columns 4, 5 and 7, attributes is column 9; a line with     *)
(* fewer than eight tabs is refused with UnexpectedEof.                    *)

\* the columns of a line: the text between its tabs, the ninth column
\* being all that follows the eighth tab
RECURSIVE ColumnsOf(_, _)
ColumnsOf(line, n) ==
    LET tabs == {i \in 1..Len(line) : line[i] = DELIMITER}
        first == CHOOSE i \in tabs : \A j \in tabs : i <= j
    IN  IF tabs = {} \/ n = 9 THEN <<line>>
        ELSE <<SubSeq(line, 1, first - 1)>>
             \o ColumnsOf(SubSeq(line, first + 1, Len(line)), n + 1)

C19_ColumnText ==
    pc = "returned" =>
        LET columns == ColumnsOf(input, 1)
        IN  IF Len(columns) < 9 THEN output.res = UnexpectedEof
            ELSE /\ is_ok(output.res)
                 /\ output.reference_sequence_name = columns[1]
                 /\ output.source = columns[2]
                 /\ output.ty = columns[3]
                 /\ output.start = parse_position(columns[4])
                 /\ output.end = parse_position(columns[5])
                 /\ output.score = columns[6]
                 /\ output.strand = parse_strand(columns[7])
                 /\ output.phase = columns[8]
                 /\ output.attributes = (IF columns[9] = <<".">> THEN <<>> ELSE columns[9])

----------------------------------------------------------------------------
(* noodles-bgzf, gzi::reader::index::read_index.  The reader is a byte     *)
(* sequence and the position read so far.                                  *)

\* pairs an input holds
MaxEntries == 2

\* u64::from_le_bytes
RECURSIVE from_le_bytes(_)
from_le_bytes(bytes) ==
    IF bytes = <<>> THEN 0 ELSE bytes[1] + 256 * from_le_bytes(Tail(bytes))

\* reader.read_u64::<LittleEndian>() at position at (0-based): read_exact
\* of eight bytes
read_u64(src, at) ==
    IF at + 8 > Len(src) THEN [res |-> UnexpectedEof, value |-> 0]
    ELSE [res |-> Ok, value |-> from_le_bytes(SubSeq(src, at + 1, at + 8))]

\* for _ in 0..len { offsets.push((reader.read_u64()?, reader.read_u64()?)) }
RECURSIVE read_offsets(_, _, _, _)
read_offsets(src, at, offsets, len) ==
    IF len = 0 THEN [res |-> Ok, offsets |-> offsets, at |-> at]
    ELSE LET compressed == read_u64(src, at)
             uncompressed == read_u64(src, at + 8)
         IN  IF ~is_ok(compressed.res)
             THEN [res |-> compressed.res, offsets |-> offsets, at |-> at]
             ELSE IF ~is_ok(uncompressed.res)
             THEN [res |-> uncompressed.res, offsets |-> offsets, at |-> at]
             ELSE read_offsets(src, at + 16,
                               Append(offsets, <<compressed.value, uncompressed.value>>),
                               len - 1)

\* read_index(reader): the result and, when it is Ok, the index.
\* offsets.reserve(len) panics when the capacity in bytes (16 a pair)
\* exceeds isize::MAX.
read_index(src) ==
    LET n == read_u64(src, 0)
        len == n.value
        read == read_offsets(src, 8, <<<<0, 0>>>>, len)
    IN  IF ~is_ok(n.res) THEN [res |-> n.res, index |-> <<>>]
        ELSE IF len > USIZE_MAX THEN [res |-> InvalidData(TryFromIntError), index |-> <<>>]
        ELSE IF (1 + len) * 16 > USIZE_MAX \div 2
        THEN [res |-> Panic(<<"capacity overflow">>), index |-> <<>>]
        ELSE IF ~is_ok(read.res) THEN [res |-> read.res, index |-> <<>>]
        ELSE IF read.at < Len(src)
        THEN [res |-> InvalidData(<<"unexpected trailing data">>), index |-> <<>>]
        ELSE [res |-> Ok, index |-> read.offsets]

\* inputs: a count, some pairs, and what follows them; the count need not
\* be the number of pairs
RECURSIVE to_le_bytes(_, _)
to_le_bytes(n, width) ==
    IF width = 0 THEN <<>> ELSE <<n % 256>> \o to_le_bytes(n \div 256, width - 1)

RECURSIVE concat(_)
concat(seqs) == IF seqs = <<>> THEN <<>> ELSE seqs[1] \o concat(Tail(seqs))

GziInputs ==
    {to_le_bytes(len, 8)
         \o concat([i \in 1..Len(pairs) |->
                       to_le_bytes(pairs[i][1], 8) \o to_le_bytes(pairs[i][2], 8)])
         \o tail :
        len \in 0..(MaxEntries + 1) \cup {USIZE_MAX},
        pairs \in SeqsUpTo({0, 4668} \X {0, 21294}, MaxEntries),
        tail \in {<<>>, <<0>>, <<60, 18, 0>>}}
    \cup {<<2, 0, 0>>}

\* SpecGzi: read_index on one input
InitGzi ==
    /\ NoWriter
    /\ pc = "call"
    /\ input \in GziInputs
    /\ output = <<>>

GziReadIndex ==
    /\ pc = "call"
    /\ output' = read_index(input)
    /\ pc' = "returned"
    /\ UNCHANGED <<records, compression_header, reference_sequence_context,
                   prev_alignment_start, out, calls, input>>

NextGzi == GziReadIndex

SpecGzi == InitGzi /\ [][NextGzi]_vars

----------------------------------------------------------------------------
(* C20: read_index returns the index that starts with (0, 0) and goes on   *)
(* with exactly len (compressed, uncompressed) pairs in file order, len    *)
(* being the little-endian 64-bit count the input starts with; it returns  *)
(* UnexpectedEof when the input ends before len pairs were read, and       *)
(* InvalidData when a byte follows the last pair.                          *)

\* the count an input starts with, and the bytes an index of that many
\* pairs takes
CountOf(src) == from_le_bytes(SubSeq(src, 1, 8))
NeededBytes(src) == 8 + 16 * CountOf(src)

C20_ReadIndex ==
    pc = "returned" =>
        IF Len(input) < 8 \/ Len(input) < NeededBytes(input)
        THEN output.res = UnexpectedEof
        ELSE IF Len(input) > NeededBytes(input)
        THEN output.res.kind = "InvalidData"
        ELSE /\ is_ok(output.res)
             /\ output.index
                    = <<<<0, 0>>>>
                      \o [i \in 1..CountOf(input) |->
                             <<from_le_bytes(SubSeq(input, 16 * i - 7, 16 * i)),
                               from_le_bytes(SubSeq(input, 16 * i + 1, 16 * i + 8))>>]

\* the same, for the counts whose pairs fit a buffer
C20_ReadIndexOfSmallCount ==
    (Len(input) >= 8 /\ CountOf(input) <= MaxEntries + 1) => C20_ReadIndex

----------------------------------------------------------------------------
(* C23: the writer's previous alignment start changes only at the end of   *)
(* a write_record that succeeds, where it becomes that record's alignment  *)
(* start (None when it has none); a write_record that fails at any field   *)
(* leaves it as it was.                                                    *)
C23_PrevAlignmentStartFrame ==
    [][/\ Len(calls') = Len(calls) + 1 =>
              prev_alignment_start'
                  = (IF is_ok(calls'[Len(calls')].result)
                     THEN calls'[Len(calls')].record.alignment_start
                     ELSE prev_alignment_start)
       /\ prev_alignment_start' # prev_alignment_start =>
              /\ Len(calls') = Len(calls) + 1
              /\ is_ok(calls'[Len(calls')].result)]_vars

\* a record with alignment start 5 is written, then a record whose start
\* does not fit is refused after its flags and read length were encoded
C23_Witness ==
    /\ Len(calls) = 2
    /\ Succeeded(1)
    /\ calls[1].record.alignment_start = Some(5)
    /\ ~Succeeded(2)
    /\ calls[2].record.alignment_start = Some(I32_MAX + 1)
    /\ Count(2, "ReadLengths") = 1
    /\ prev_alignment_start = Some(5)

----------------------------------------------------------------------------
(* C29: whatever the order of a mapped record's feature list, the value    *)
(* handed to the feature position encoding is the feature's position minus *)
(* the previous feature's position and is not negative, or the record is   *)
(* refused with an error; write_record never panics and never encodes a    *)
(* wrapped value.                                                          *)
C29_NoPositionUnderflow ==
    \A k \in 1..Len(calls) :
        LET record == calls[k].record
            deltas == ValuesOf(k, "FeaturePositionDeltas")
        IN  ~is_unmapped(record.bam_flags) =>
                /\ calls[k].result.kind # "Panic"
                /\ \A i \in 1..Len(deltas) :
                       /\ deltas[i] >= 0
                       /\ deltas[i] = PositionDeltas(record.features)[i]
                /\ Succeeded(k) => Len(deltas) = Len(record.features)

----------------------------------------------------------------------------
(* C30: aac::encode in order-0 and in order-1 mode returns Ok for every    *)
(* input: the symbol count at the start of the body does not overflow a    *)
(* byte (also with byte 255 in the input), the order-1 encoder does not    *)
(* index out of bounds (also on the empty input), and every input symbol   *)
(* is encoded once, in input order, the first with model 0 and every later *)
(* one with the model of the symbol before it.                             *)
C30_EncodeReturnsOk ==
    (Returned /\ input.flags \subseteq {"ORDER", "NO_SIZE"}) =>
        LET src == input.src
            coded == SelectSeq(AacBody, LAMBDA item : item.kind = "sym")
        IN  /\ is_ok(output.res)
            /\ AacBody[1] = u8(max_sym(src) + 1)
            /\ Len(coded) = Len(src)
            /\ \A i \in 1..Len(src) :
                   /\ coded[i].value = src[i]
                   /\ coded[i].ctx = (IF "ORDER" \in input.flags /\ i > 1
                                      THEN src[i - 1] ELSE 0)

----------------------------------------------------------------------------
(* noodles-bam/src/record/codec/encoder/sequence.rs                        *)

\* fn encode_base(base: Base) -> u8
encode_base(base) ==
    CASE base = "Eq" -> 0
      [] base = "A" -> 1
      [] base = "C" -> 2
      [] base = "M" -> 3
      [] base = "G" -> 4
      [] base = "R" -> 5
      [] base = "S" -> 6
      [] base = "V" -> 7
      [] base = "T" -> 8
      [] base = "W" -> 9
      [] base = "Y" -> 10
      [] base = "H" -> 11
      [] base = "K" -> 12
      [] base = "D" -> 13
      [] base = "B" -> 14
      [] OTHER -> 15

\* the `while let Some(l) = bases.next()` loop: i is the iterator's position;
\* `<< 4` on a u8 drops the bits shifted out, and `|` with a value below 16
\* fills the four low bits the shift left zero
RECURSIVE put_bases(_, _, _)
put_bases(dst, bases, i) ==
    IF i > Len(bases) THEN dst
    ELSE LET l == bases[i]
             r == IF i + 1 <= Len(bases) THEN bases[i + 1] ELSE "Eq"
             b == ((encode_base(l) * 16) % 256) + encode_base(r)
         IN  put_bases(Append(dst, b), bases, i + 2)

\* faulty variant: a read length of 0 is compared with the sequence too
put_sequence_strict(dst, len, bases) ==
    IF Len(bases) # len
    THEN [res |-> InvalidInput(<<"read length-sequence length mismatch">>),
          dst |-> dst]
    ELSE [res |-> Ok, dst |-> put_bases(dst, bases, 1)]

\* pub fn put_sequence<B>(dst: &mut B, read_length: usize, sequence: &Sequence)
put_sequence(dst, len, bases) ==
    IF len > 0 /\ Len(bases) # len
    THEN [res |-> InvalidInput(<<"read length-sequence length mismatch">>),
          dst |-> dst]
    ELSE [res |-> Ok, dst |-> put_bases(dst, bases, 1)]

\* bases of the inputs: the padding code, three codes with different bits
\* set, and a base outside the fifteen named ones
SeqBases == {"Eq", "A", "C", "T", "X"}

SeqInputs ==
    [dst : {<<>>, <<255>>},
     read_length : 0..(MaxLen + 1),
     sequence : SeqsUpTo(SeqBases, MaxLen)]

InitSeq ==
    /\ NoWriter
    /\ pc = "call"
    /\ input \in SeqInputs
    /\ output = <<>>

PutSequence ==
    /\ pc = "call"
    /\ output' = put_sequence(input.dst, input.read_length, input.sequence)
    /\ pc' = "returned"
    /\ UNCHANGED <<records, compression_header, reference_sequence_context,
                   prev_alignment_start, out, calls, input>>

NextSeq == PutSequence

SpecSeq == InitSeq /\ [][NextSeq]_vars

\* the bytes put_sequence added to the buffer it was given
SeqWritten == SubSeq(output.dst, Len(input.dst) + 1, Len(output.dst))

C22_WitnessMismatch ==
    /\ pc = "returned"
    /\ input.sequence = <<"A">>
    /\ input.read_length = 2
    /\ output.res.kind = "InvalidInput"
    /\ output.dst = input.dst

----------------------------------------------------------------------------
(* noodles-gff/src/async/io/reader/line.rs                                 *)
(*                                                                         *)
(* read_line loops over super::read_line and is_blank.  The state of the   *)
(* loop is kept in output: src is what the reader has not consumed, buf is *)
(* line.0, n is the last count read, lines is what the caller collected.   *)

MaxData == 4

LINE_FEED == "\n"

Whitespace == {"\t", LINE_FEED}

\* crate::io::reader::line::is_blank: no character that is not whitespace
is_blank(buf) == \A i \in 1..Len(buf) : buf[i] \in Whitespace

\* length of the first line of src, its line feed not counted
RECURSIVE line_len(_, _)
line_len(src, i) ==
    IF i > Len(src) \/ src[i] = LINE_FEED THEN i - 1 ELSE line_len(src, i + 1)

\* super::read_line(reader, buf): appends the next line to buf without its
\* line feed and returns the number of bytes consumed, 0 at end of input
read_line(src, buf) ==
    LET len == line_len(src, 1)
        n == IF len < Len(src) THEN len + 1 ELSE len
    IN  [src |-> SubSeq(src, n + 1, Len(src)),
         buf |-> buf \o SubSeq(src, 1, len),
         n |-> n]

\* faulty variant: the count is not looked at
is_returned_unless_blank(n, buf) == ~is_blank(buf)

\* if n == 0 || !is_blank(buf) { return Ok(n); }
is_returned(n, buf) == n = 0 \/ ~is_blank(buf)

DataChars == {"a", "b", "\t", LINE_FEED}

InitLine ==
    /\ NoWriter
    /\ pc = "loop"
    /\ input \in SeqsUpTo(DataChars, MaxData)
    /\ output = [src |-> input, buf |-> <<>>, n |-> 0, lines |-> <<>>]

\* buf.clear();
BufClear ==
    /\ pc = "loop"
    /\ output' = [output EXCEPT !.buf = <<>>]
    /\ pc' = "read"
    /\ UNCHANGED <<records, compression_header, reference_sequence_context,
                   prev_alignment_start, out, calls, input>>

\* let n = super::read_line(reader, buf).await?;
ReadLine ==
    /\ pc = "read"
    /\ \E r \in {read_line(output.src, output.buf)} :
           output' = [output EXCEPT !.src = r.src, !.buf = r.buf, !.n = r.n]
    /\ pc' = "test"
    /\ UNCHANGED <<records, compression_header, reference_sequence_context,
                   prev_alignment_start, out, calls, input>>

\* the end of the loop body: return Ok(n) or go round again
ReturnOrLoop ==
    /\ pc = "test"
    /\ pc' = IF is_returned(output.n, output.buf) THEN "returned" ELSE "loop"
    /\ UNCHANGED <<records, compression_header, reference_sequence_context,
                   prev_alignment_start, out, calls, input, output>>

\* the caller: while read_line(&mut src, &mut line).await? != 0 { push }
CallAgain ==
    /\ pc = "returned"
    /\ output.n # 0
    /\ output' = [output EXCEPT !.lines = Append(@, output.buf)]
    /\ pc' = "loop"
    /\ UNCHANGED <<records, compression_header, reference_sequence_context,
                   prev_alignment_start, out, calls, input>>

NextLine == BufClear \/ ReadLine \/ ReturnOrLoop \/ CallAgain

SpecLine == InitLine /\ [][NextLine]_vars

\* the future is polled until it is ready, and a reader over a slice is
\* always ready
SpecLineFair == SpecLine /\ WF_vars(NextLine)

\* the lines of a text: the runs between line feeds, the run after the last
\* line feed included when it is not empty
RECURSIVE LinesOf(_)
LinesOf(src) ==
    IF src = <<>> THEN <<>>
    ELSE LET len == line_len(src, 1)
         IN  <<SubSeq(src, 1, len)>> \o LinesOf(SubSeq(src, len + 2, Len(src)))

NonBlankLines == SelectSeq(LinesOf(input), LAMBDA l : ~is_blank(l))

\* what read_line has done when it returns
C21_Returned ==
    pc = "returned" =>
        IF output.n = 0
        THEN /\ output.src = <<>>
             /\ output.buf = <<>>
             /\ output.lines = NonBlankLines
        ELSE /\ Len(output.lines) < Len(NonBlankLines)
             /\ output.buf = NonBlankLines[Len(output.lines) + 1]
             /\ ~is_blank(output.buf)

\* what the caller has been given so far
C21_InOrder ==
    /\ Len(output.lines) <= Len(NonBlankLines)
    /\ output.lines = SubSeq(NonBlankLines, 1, Len(output.lines))

(* C21: read_line returns 0 only at the end of the input and otherwise     *)
(* leaves the next non-blank line in the buffer: blank lines are skipped,  *)
(* non-blank lines are returned in input order without loss, the buffer    *)
(* holds no text of a skipped line, and every call returns.                *)
C21_ReadLine ==
    /\ [](C21_Returned /\ C21_InOrder)
    /\ (pc = "loop") ~> (pc = "returned")

\* "\n" skipped, "a" returned, "\t" skipped at the end of the input, then 0
\* returned with an empty buffer
C21_Witness ==
    /\ input = <<LINE_FEED, "a", LINE_FEED, "\t">>
    /\ pc = "returned"
    /\ output.n = 0
    /\ output.lines = << <<"a">> >>

----------------------------------------------------------------------------
(* noodles-cram/src/codecs/rans_nx16/decode/order_1.rs: frequency tables   *)
(*                                                                         *)
(* A reader is a byte sequence src and the number at of bytes consumed.    *)
(* A table has AlphabetSize rows of AlphabetSize entries (256 in the code),*)
(* row i and entry j at indexes i + 1 and j + 1.                           *)

AlphabetSize == 3
MaxTable == 5
MaxNested == 2

RECURSIVE pow2(_)
pow2(k) == IF k = 0 THEN 1 ELSE 2 * pow2(k - 1)

RECURSIVE sum(_)
sum(row) == IF row = <<>> THEN 0 ELSE Head(row) + sum(Tail(row))

zeros == [j \in 1..AlphabetSize |-> 0]

\* reader.read_u8()
read_u8(src, at) ==
    IF at + 1 > Len(src) THEN [res |-> UnexpectedEof, value |-> 0, at |-> at]
    ELSE [res |-> Ok, value |-> src[at + 1], at |-> at + 1]

\* crate::reader::num::read_uint7: base-128 groups, a set top bit meaning
\* that another group follows; bits beyond the width of the result are
\* dropped (the result is a u32; the model keeps 21 bits)
RECURSIVE num_read_uint7(_, _)
num_read_uint7(src, at) ==
    LET b == read_u8(src, at)
        rest == num_read_uint7(src, b.at)
    IN  IF ~is_ok(b.res) \/ b.value < 128 THEN b
        ELSE IF ~is_ok(rest.res) THEN rest
        ELSE [res |-> Ok,
              value |-> ((b.value - 128) + 128 * rest.value) % pow2(21),
              at |-> rest.at]

\* super::read_alphabet: the presence flags of the symbols, one bit each
read_alphabet(src, at) ==
    LET b == read_u8(src, at)
    IN  [res |-> b.res,
         value |-> [j \in 1..AlphabetSize |->
                        (b.value \div pow2(j - 1)) % 2 = 1],
         at |-> b.at]

\* the inner loop of read_frequencies_inner, lines 134-152: j is the next
\* symbol, run the number of present symbols still to pass over
RECURSIVE read_row(_, _, _, _, _, _)
read_row(src, at, alphabet, j, run, row) ==
    IF j >= AlphabetSize THEN [res |-> Ok, value |-> row, at |-> at, run |-> run]
    ELSE IF ~alphabet[j + 1] THEN read_row(src, at, alphabet, j + 1, run, row)
    ELSE IF run > 0 THEN read_row(src, at, alphabet, j + 1, run - 1, row)
    ELSE LET f == num_read_uint7(src, at)
             r == read_u8(src, f.at)
         IN  IF ~is_ok(f.res)
             THEN [res |-> f.res, value |-> row, at |-> f.at, run |-> run]
             ELSE IF f.value # 0
             THEN read_row(src, f.at, alphabet, j + 1, 0,
                           [row EXCEPT ![j + 1] = f.value])
             ELSE IF ~is_ok(r.res)
             THEN [res |-> r.res, value |-> row, at |-> r.at, run |-> run]
             ELSE read_row(src, r.at, alphabet, j + 1, r.value,
                           [row EXCEPT ![j + 1] = 0])

RECURSIVE shift_to(_, _)
shift_to(total, limit) ==
    IF total < limit THEN 1 + shift_to(2 * total, limit) ELSE 0

\* order_0::normalize_frequencies(&mut freqs[i], bits): a row whose total is
\* below 1 << bits is doubled until it is not; a row of zeros, and a row
\* that has the total already, is left as it is
normalize_frequencies(row, bits) ==
    LET total == sum(row)
    IN  IF total = 0 \/ total = pow2(bits) THEN row
        ELSE [j \in 1..AlphabetSize |->
                  row[j] * pow2(shift_to(total, pow2(bits)))]

\* cumulative_freqs[i][0] = 0; for j in 0..255 { [j + 1] = [j] + freqs[i][j] }
RECURSIVE cumulative(_, _, _)
cumulative(row, j, acc) ==
    IF j >= AlphabetSize - 1 THEN acc
    ELSE cumulative(row, j + 1, Append(acc, acc[j + 1] + row[j + 1]))

\* faulty variant: what is left of a row's run is carried into the next row
initial_run_carried(run) == run

\* let mut run = 0; at the start of every row
initial_run(run) == 0

\* the outer loop of read_frequencies_inner, lines 129-161: run is what the
\* row before left of its run
RECURSIVE read_rows(_, _, _, _, _, _, _)
read_rows(src, at, alphabet, i, bits, table, run) ==
    IF i >= AlphabetSize THEN [res |-> Ok, value |-> table, at |-> at]
    ELSE IF ~alphabet[i + 1]
    THEN read_rows(src, at, alphabet, i + 1, bits, table, run)
    ELSE LET row == read_row(src, at, alphabet, 0, initial_run(run), zeros)
             freqs == normalize_frequencies(row.value, bits)
         IN  IF ~is_ok(row.res) THEN [res |-> row.res, value |-> table, at |-> row.at]
             ELSE read_rows(src, row.at, alphabet, i + 1, bits,
                      [freqs |-> [table.freqs EXCEPT ![i + 1] = freqs],
                       cumulative_freqs |->
                           [table.cumulative_freqs EXCEPT
                                ![i + 1] = cumulative(freqs, 0, <<0>>)]],
                      row.run)

\* vec![vec![0; 256]; 256], twice
empty_tables ==
    [freqs |-> [i \in 1..AlphabetSize |-> zeros],
     cumulative_freqs |-> [i \in 1..AlphabetSize |-> zeros]]

\* fn read_frequencies_inner(reader, freqs, cumulative_freqs, bits)
read_frequencies_inner(src, at, bits) ==
    LET alphabet == read_alphabet(src, at)
    IN  IF ~is_ok(alphabet.res)
        THEN [res |-> alphabet.res, value |-> empty_tables, at |-> alphabet.at]
        ELSE read_rows(src, alphabet.at, alphabet.value, 0, bits, empty_tables, 0)

\* reader.read_exact(&mut buf) for a buffer of len bytes
read_exact(src, at, len) ==
    IF at + len > Len(src) THEN [res |-> UnexpectedEof, value |-> <<>>, at |-> at]
    ELSE [res |-> Ok, value |-> SubSeq(src, at + 1, at + len), at |-> at + len]

\* fn read_frequencies(reader, freqs, cumulative_freqs): nested is what
\* order_0::decode(&mut c_data_reader, &mut u_data, 4) makes of c_data, an
\* error or the u_size bytes of u_data.  The result names the bytes the
\* tables were read from (source), where in them the reading began (first)
\* and where it ended (last); at is the position of the reader itself.
read_frequencies(src, at, nested) ==
    LET comp == read_u8(src, at)
        bits == comp.value \div 16
        u_size == num_read_uint7(src, comp.at)
        c_size == num_read_uint7(src, u_size.at)
        c_data == read_exact(src, c_size.at, c_size.value)
        failed(res, end) ==
            [res |-> res, bits |-> bits, tables |-> empty_tables, at |-> end,
             source |-> <<>>, first |-> 0, last |-> 0]
        done(inner, source, first, end) ==
            [res |-> inner.res, bits |-> bits, tables |-> inner.value, at |-> end,
             source |-> source, first |-> first, last |-> inner.at]
    IN  IF ~is_ok(comp.res) THEN failed(comp.res, comp.at)
        ELSE IF comp.value % 2 # 0
        THEN IF ~is_ok(u_size.res) THEN failed(u_size.res, u_size.at)
             ELSE IF ~is_ok(c_size.res) THEN failed(c_size.res, c_size.at)
             ELSE IF ~is_ok(c_data.res) THEN failed(c_data.res, c_data.at)
             ELSE IF ~is_ok(nested.res) THEN failed(nested.res, c_data.at)
             ELSE done(read_frequencies_inner(nested.value, 0, bits),
                       nested.value, 0, c_data.at)
        ELSE LET inner == read_frequencies_inner(src, comp.at, bits)
             IN  done(inner, src, comp.at, inner.at)

ControlBytes == {16, 32, 33}

FreqBytes == {0, 2, 3, 129}

NestedBytes == {0, 1, 2}

FreqInputs ==
    {<<>>} \cup {<<comp>> \o rest : comp \in ControlBytes,
                                   rest \in SeqsUpTo(FreqBytes, MaxTable)}

\* what order_0::decode may make of the nested table: an error, or u_data
\* filled with u_size bytes; it is called only when bit 0 of comp is set
NestedOutcomes(src) ==
    LET comp == read_u8(src, 0)
        u_size == num_read_uint7(src, comp.at)
    IN  {[res |-> InvalidData(<<>>), value |-> <<>>]}
            \cup (IF /\ is_ok(comp.res) /\ comp.value % 2 # 0
                      /\ is_ok(u_size.res) /\ u_size.value <= MaxNested
                   THEN {[res |-> Ok, value |-> u_data] :
                            u_data \in [1..u_size.value -> NestedBytes]}
                   ELSE {})

InitFreq ==
    /\ NoWriter
    /\ pc = "call"
    /\ input \in FreqInputs
    /\ output = <<>>

ReadFrequencies ==
    /\ pc = "call"
    /\ \E nested \in NestedOutcomes(input) :
           output' = read_frequencies(input, 0, nested)
    /\ pc' = "returned"
    /\ UNCHANGED <<records, compression_header, reference_sequence_context,
                   prev_alignment_start, out, calls, input>>

NextFreq == ReadFrequencies

SpecFreq == InitFreq /\ [][NextFreq]_vars


\* the symbols present in the alphabet of the tables that were read
PresentSymbols ==
    {j \in 0..(AlphabetSize - 1) :
         read_alphabet(output.source, output.first).value[j + 1]}

\* the (context, symbol) pairs of present contexts and present symbols, row
\* by row, each row in ascending symbol order
PresentCells ==
    SelectSeq([k \in 1..(AlphabetSize * AlphabetSize) |->
                   [context |-> (k - 1) \div AlphabetSize,
                    symbol |-> (k - 1) % AlphabetSize]],
              LAMBDA cell : /\ cell.context \in PresentSymbols
                            /\ cell.symbol \in PresentSymbols)

\* the frequencies of the cells from cell k on as C26 reads them from the
\* bytes at position at, with skip cells still to pass over in this row: the
\* frequency of each cell and the position after the last byte read (-1
\* when the bytes end early)
RECURSIVE FrequenciesRead(_, _, _, _, _)
FrequenciesRead(cells, k, at, skip, read) ==
    IF k > Len(cells) THEN [read |-> read, at |-> at]
    ELSE LET first == k = 1 \/ cells[k - 1].context # cells[k].context
             left == IF first THEN 0 ELSE skip
             f == num_read_uint7(output.source, at)
             r == read_u8(output.source, f.at)
         IN  IF left > 0
             THEN FrequenciesRead(cells, k + 1, at, left - 1, Append(read, 0))
             ELSE IF ~is_ok(f.res) THEN [read |-> read, at |-> -1]
             ELSE IF f.value # 0
             THEN FrequenciesRead(cells, k + 1, f.at, 0, Append(read, f.value))
             ELSE IF ~is_ok(r.res) THEN [read |-> read, at |-> -1]
             ELSE FrequenciesRead(cells, k + 1, r.at, r.value, Append(read, 0))

\* row i of the table as read, before it is normalized
RowRead(cells, read, i) ==
    [j \in 1..AlphabetSize |->
         LET at == {k \in 1..Len(cells) :
                        cells[k].context = i /\ cells[k].symbol = j - 1}
         IN  IF at = {} \/ Len(read) < Len(cells) THEN 0
             ELSE read[CHOOSE k \in at : TRUE]]

(* C26: the order-1 frequency tables are read, for each present context in *)
(* ascending order, as one variable-length frequency per present symbol in *)
(* ascending order, except that a zero frequency is followed by a          *)
(* run-length byte r and the next r present symbols of the row keep        *)
(* frequency 0 without consuming input; a run is not carried into the      *)
(* next context's row, and absent rows and absent entries stay 0.          *)
C26_FrequenciesRead ==
    (pc = "returned" /\ is_ok(output.res)) =>
        \E cells \in {PresentCells}, present \in {PresentSymbols} :
            \E expected \in {FrequenciesRead(cells, 1, output.first + 1, 0, <<>>)} :
                /\ expected.at = output.last
                /\ \A i \in 0..(AlphabetSize - 1) :
                       output.tables.freqs[i + 1]
                           = normalize_frequencies(
                                 RowRead(cells, expected.read, i), output.bits)
                /\ \A i, j \in 0..(AlphabetSize - 1) :
                       (i \notin present \/ j \notin present) =>
                           output.tables.freqs[i + 1][j + 1] = 0

\* symbols 0 and 1: the first row is a zero with a run of 2, of which one
\* is left over at the end of the row; the second row is read from its own
\* two frequencies
C26_Witness ==
    /\ pc = "returned"
    /\ input = <<32, 3, 0, 2, 2, 2>>
    /\ is_ok(output.res)
    /\ output.at = 6
    /\ sum(output.tables.freqs[1]) = 0
    /\ output.tables.freqs[2][1] = 2
    /\ output.tables.freqs[2][2] = 2


\* cumulative_freqs[i] is the prefix sums of freqs[i]
IsPrefixSums(cumulative_freqs, freqs) ==
    \A j \in 1..AlphabetSize :
        cumulative_freqs[j] = sum(SubSeq(freqs, 1, j - 1))

C27_PrefixSums ==
    (pc = "returned" /\ is_ok(output.res)) =>
        \E cells \in {PresentCells} :
            \E expected \in {FrequenciesRead(cells, 1, output.first + 1, 0, <<>>)} :
                \A i \in PresentSymbols :
                    LET freqs == output.tables.freqs[i + 1]
                        total == sum(RowRead(cells, expected.read, i))
                    IN  /\ IsPrefixSums(output.tables.cumulative_freqs[i + 1], freqs)
                        /\ (\E k \in 0..output.bits :
                                total * pow2(k) = pow2(output.bits))
                               => sum(freqs) = pow2(output.bits)

----------------------------------------------------------------------------
(* noodles-cram/src/codecs/rans_nx16/decode/order_1.rs: decode             *)
(*                                                                         *)
(* decode is followed statement by statement; its locals are the fields of *)
(* output: at is the reader's position, asked the furthest position a read *)
(* has asked for, out the output slice (-1 where nothing was written yet), *)
(* writes the writes to it in the order they were made.  The lane states   *)
(* are kept as read; which symbol a state stands for and whether it has to *)
(* be renormalized is left open at every step.                             *)

MaxLanes == 2
MaxOut == 5
MaxTail == 4 * MaxLanes + 2 * MaxOut

\* faulty variant: the end of the input is read as a zero
read_u32_or_zero(src, at) ==
    IF at + 4 > Len(src) THEN [res |-> Ok, value |-> 0, at |-> at]
    ELSE [res |-> Ok, value |-> from_le_bytes(SubSeq(src, at + 1, at + 4)),
          at |-> at + 4]

\* reader.read_u32::<LittleEndian>()
read_u32(src, at) ==
    IF at + 4 > Len(src) THEN [res |-> UnexpectedEof, value |-> 0, at |-> at]
    ELSE [res |-> Ok, value |-> from_le_bytes(SubSeq(src, at + 1, at + 4)),
          at |-> at + 4]

\* for s in &mut state { *s = reader.read_u32::<LittleEndian>()?; }
RECURSIVE read_states(_, _, _, _)
read_states(src, at, n, state) ==
    IF Len(state) = n THEN [res |-> Ok, value |-> state, at |-> at, asked |-> at]
    ELSE LET s == read_u32(src, at)
         IN  IF ~is_ok(s.res)
             THEN [res |-> s.res, value |-> state, at |-> s.at, asked |-> at + 4]
             ELSE read_states(src, s.at, n, Append(state, s.value))

\* super::rans_renorm_nx16(reader, state[j]): a state below the threshold
\* takes two more bytes from the reader
rans_renorm_nx16(src, at, below) ==
    IF below THEN read_exact(src, at, 2) ELSE [res |-> Ok, value |-> <<>>, at |-> at]

\* super::rans_get_symbol_from_freq(&cumulative_freqs[context], f): a symbol
\* that has a share of the context's range, the last symbol when none has
symbols_from_freq(tables, context) ==
    LET found == {s \in 0..(AlphabetSize - 1) : tables.freqs[context + 1][s + 1] > 0}
    IN  IF found = {} THEN {AlphabetSize - 1} ELSE found

\* faulty variant: the lanes are interleaved symbol by symbol
cycle_position_interleaved(i, j, len, n) == i * n + j

\* i + j * (output.len() / (n as usize))
cycle_position(i, j, len, n) == i + j * (len \div n)

\* faulty variant: every symbol is decoded with the table of context 0
context_zero(last_syms, j) == 0

\* last_syms[j]
context_of(last_syms, j) == last_syms[j + 1]

\* the body of both loops, lines 32-46 and 56-70, for lane j writing at
\* position k: s is the symbol found, below whether the state is renormalized
lane_step(d, src, j, k, s, below) ==
    LET context == context_of(d.last_syms, j)
        renorm == rans_renorm_nx16(src, d.at, below)
        asked == IF below /\ d.at + 2 > d.asked THEN d.at + 2 ELSE d.asked
    IN  IF k >= Len(d.out)
        THEN [d EXCEPT !.res = Panic(<<"index out of bounds">>)]
        ELSE [d EXCEPT !.out[k + 1] = s,
                       !.writes = Append(@, [pos |-> k, lane |-> j,
                                             ctx |-> context, sym |-> s]),
                       !.res = renorm.res,
                       !.at = renorm.at,
                       !.asked = asked,
                       !.last_syms[j + 1] = IF is_ok(renorm.res) THEN s ELSE @]

\* a table for the symbols 0 and 1 with two rows of 2 and 2, bits = 2
RansTable == <<32, 3, 2, 2, 2, 2>>

\* the table followed by up to MaxTail bytes 1, 2, 0, 1, ..., and every
\* stream cut short
RansStreams ==
    {SubSeq(RansTable \o [t \in 1..MaxTail |-> t % 3], 1, k) :
         k \in 0..(Len(RansTable) + MaxTail)}

RansInputs == [src : RansStreams, n : 1..MaxLanes, len : 0..MaxOut]

InitRans ==
    /\ NoWriter
    /\ pc = "call"
    /\ input \in RansInputs
    /\ output = <<>>

\* let bits = read_frequencies(reader, &mut freqs, &mut cumulative_freqs)?;
RansReadFrequencies ==
    /\ pc = "call"
    /\ \E nested \in NestedOutcomes(input.src) :
           \E r \in {read_frequencies(input.src, 0, nested)} :
               output' = [res |-> r.res, at |-> r.at,
                          asked |-> IF r.res = UnexpectedEof
                                    THEN Len(input.src) + 1 ELSE r.at,
                          bits |-> r.bits, tables |-> r.tables,
                          state |-> <<>>, last_syms |-> <<>>, i |-> 0, j |-> 0,
                          out |-> [k \in 1..input.len |-> -1], writes |-> <<>>]
    /\ pc' = IF is_ok(output'.res) THEN "states" ELSE "returned"
    /\ UNCHANGED <<records, compression_header, reference_sequence_context,
                   prev_alignment_start, out, calls, input>>

\* lines 21-28: the lane states, then i = 0 and last_syms = vec![0; n]
RansReadStates ==
    /\ pc = "states"
    /\ \E r \in {read_states(input.src, output.at, input.n, <<>>)} :
           output' = [output EXCEPT !.res = r.res, !.at = r.at,
                                    !.asked = r.asked, !.state = r.value,
                                    !.last_syms = [j \in 1..input.n |-> 0]]
    /\ pc' = IF is_ok(output'.res) THEN "cycle" ELSE "returned"
    /\ UNCHANGED <<records, compression_header, reference_sequence_context,
                   prev_alignment_start, out, calls, input>>

\* lines 30-50: one lane of one cycle
RansCycleStep ==
    /\ pc = "cycle"
    /\ output.i < input.len \div input.n
    /\ \E s \in symbols_from_freq(output.tables,
                                  context_of(output.last_syms, output.j)),
          below \in BOOLEAN :
           \E d \in {lane_step(output, input.src, output.j,
                               cycle_position(output.i, output.j,
                                              input.len, input.n),
                               s, below)} :
               /\ output' = IF ~is_ok(d.res) THEN d
                            ELSE IF output.j + 1 < input.n
                            THEN [d EXCEPT !.j = output.j + 1]
                            ELSE [d EXCEPT !.j = 0, !.i = output.i + 1]
               /\ pc' = IF is_ok(d.res) THEN "cycle" ELSE "returned"
    /\ UNCHANGED <<records, compression_header, reference_sequence_context,
                   prev_alignment_start, out, calls, input>>

\* lines 52-53: i *= n as usize; let m = (n - 1) as usize;
RansCyclesEnd ==
    /\ pc = "cycle"
    /\ output.i >= input.len \div input.n
    /\ output' = [output EXCEPT !.i = output.i * input.n, !.j = input.n - 1]
    /\ pc' = "rest"
    /\ UNCHANGED <<records, compression_header, reference_sequence_context,
                   prev_alignment_start, out, calls, input>>

\* lines 55-73: one symbol of the remainder, by lane m
RansRestStep ==
    /\ pc = "rest"
    /\ output.i < input.len
    /\ \E s \in symbols_from_freq(output.tables,
                                  context_of(output.last_syms, output.j)),
          below \in BOOLEAN :
           \E d \in {lane_step(output, input.src, output.j, output.i, s, below)} :
               /\ output' = IF ~is_ok(d.res) THEN d
                            ELSE [d EXCEPT !.i = output.i + 1]
               /\ pc' = IF is_ok(d.res) THEN "rest" ELSE "returned"
    /\ UNCHANGED <<records, compression_header, reference_sequence_context,
                   prev_alignment_start, out, calls, input>>

\* line 75: Ok(())
RansReturn ==
    /\ pc = "rest"
    /\ output.i >= input.len
    /\ pc' = "returned"
    /\ UNCHANGED <<records, compression_header, reference_sequence_context,
                   prev_alignment_start, out, calls, input, output>>

NextRans ==
    \/ RansReadFrequencies
    \/ RansReadStates
    \/ RansCycleStep
    \/ RansCyclesEnd
    \/ RansRestStep
    \/ RansReturn

SpecRans == InitRans /\ [][NextRans]_vars


\* decode has returned Ok(())
RansDone == pc = "returned" /\ is_ok(output.res)

SymbolBefore(writes, w) ==
    LET before == {v \in 1..(w - 1) : writes[v].lane = writes[w].lane}
    IN  IF before = {} THEN 0
        ELSE writes[CHOOSE v \in before : \A u \in before : u <= v].sym

TablesReadCompletely(src) ==
    \A nested \in NestedOutcomes(src) :
        \E r \in {read_frequencies(src, 0, nested)} :
            is_ok(r.res) =>
                \A k \in 0..(r.at - 1) :
                    \A cut \in NestedOutcomes(SubSeq(src, 1, k)) :
                        read_frequencies(SubSeq(src, 1, k), 0, cut).res.kind
                            \notin {"Ok", "Panic"}

(* C28: decode returns an error, never success, whenever the input ends    *)
(* before the frequency tables, the N little-endian 32-bit lane states     *)
(* (read after the tables, lane 0 first) or the bytes of a renormalization *)
(* have been read completely.                                              *)
C28_TruncatedInput ==
    /\ TablesReadCompletely(input.src)
    /\ (pc = "returned" /\ output.asked > Len(input.src)) =>
           output.res = UnexpectedEof
    /\ pc \in {"cycle", "rest"} \/ RansDone =>
           /\ Len(output.state) = input.n
           /\ output.at <= Len(input.src)
           /\ Len(RansTable) + 4 * input.n <= Len(input.src)
           /\ \A j \in 0..(input.n - 1) :
                  output.state[j + 1]
                      = from_le_bytes(SubSeq(input.src,
                                             Len(RansTable) + 4 * j + 1,
                                             Len(RansTable) + 4 * j + 4))

\* the input ends one byte into the second renormalization: two bytes were
\* written and the call returns UnexpectedEof
C28_Witness ==
    /\ pc = "returned"
    /\ input.n = 2
    /\ Len(input.src) = Len(RansTable) + 4 * input.n + 3
    /\ Len(output.writes) = 2
    /\ output.asked = Len(input.src) + 1
    /\ output.res = UnexpectedEof

\* the table part of C28 for every table stream of SpecFreq
C28_TablesReadCompletely == TablesReadCompletely(input)

====
